---- MODULE Spec2Model ----
(***************************************************************************)
(* A model of package redisgo (aiscrm/redisgo): the Cacher of the newer    *)
(* source file (pool set-up, Do, HMSet, Subscribe, the value codec and the *)
(* shutdown hook) and the Redis singleton of redis.go.                     *)
(*                                                                         *)
(* The redigo pool, the store and the Go runtime are the environment: the  *)
(* pool follows redigo's redis.Pool with the fields StartAndGC sets        *)
(* (MaxActive, MaxIdle, TestOnBorrow; Wait is left false), the store is a  *)
(* request/reply service that can become unreachable and come back.        *)
(***************************************************************************)
EXTENDS Integers, Sequences, FiniteSets, TLC

\* ---------------------------------------------------------------- bounds
MaxOutages == 2        \* how often the store may become unreachable
MaxMsgs == 2           \* how many messages are published
MaxSeen == 2           \* the observation counters saturate here
MaxActiveCfg == 2      \* Options.MaxActive is drawn from 0..MaxActiveCfg
MaxHooks == 2          \* how many times StartAndGC is run in all
MaxDials == 3          \* how many times the pool calls Dial

\* ------------------------------------------------------ program constants
DefaultMaxIdle == 3    \* opts.MaxIdle when the caller leaves it 0

Threads == {"t1", "t2"}          \* callers of Do and HMSet
SubOwner == "sub"                \* the Subscription Engine as a borrower
Owners == Threads \cup {SubOwner}
Cachers == {"c1", "c2"}          \* the Cacher objects of the process
Handlers == {"h1", "h2"}
Channels == {"chA", "chB"}

VARIABLES
    pool,       \* the redis.Pool of the Cacher: maxActive, idle list, held
    storeUp,    \* whether the store is reachable
    outages,    \* how often it became unreachable so far
    thr,        \* the state of each caller thread inside Do / HMSet
    sub,        \* the Subscription Engine: frames, receive loop, reconnector
    inbox,      \* items the store has pushed on the subscription connection
    published,  \* how many messages have been published
    delivered,  \* handler invocations started: <<handler, channel, data>>
    cachers,    \* each Cacher object: its codec functions, prefix, pool
    hooks,      \* the signal listeners started by closePool, in order
    signal,     \* the termination signal the process has received, if any
    exited,     \* whether the process has exited
    single,     \* redis.go: the once, the instance, the callers of New
    dial,       \* the pool's Dial function: its position, steps and result
    store,      \* the store's string keys: key -> text and time to live
    last        \* the last codec operation and what it returned

poolVars == <<pool, storeUp, outages, thr, sub, inbox, published, delivered>>
lifeVars == <<cachers, hooks, signal, exited, single, dial>>
codecVars == <<store, last>>
vars == <<poolVars, lifeVars, codecVars>>

\* ---------------------------------------------------------------- helpers
Sat(n) == IF n < MaxSeen THEN n + 1 ELSE n

RECURSIVE SumHeld(_, _)
SumHeld(h, S) ==
    IF S = {} THEN 0
    ELSE LET o == CHOOSE x \in S : TRUE IN h[o] + SumHeld(h, S \ {o})

\* Connections handed out by the pool and not yet put back.
Borrowed == SumHeld(pool.held, Owners)

\* redigo's p.active: open connections, in use or idle.
Active == Borrowed + Len(pool.idle)

RECURSIVE DropStale(_)
\* Get walks the idle list from the front; TestOnBorrow (PING) fails on a
\* connection whose transport is gone and the pool closes it.
DropStale(idle) ==
    IF idle = <<>> THEN <<>>
    ELSE IF Head(idle) THEN idle ELSE DropStale(Tail(idle))

NoConn == [kind |-> "none", broken |-> FALSE, errored |-> FALSE, err |-> "nil"]

\* c.pool.Get() for borrower o: the connection handed out and the pool after.
\* With Wait unset, a pool at its MaxActive limit hands out an error
\* connection (ErrPoolExhausted); a failed dial hands out an error connection
\* too.  Neither counts as borrowed.
PoolGet(o) ==
    LET live == DropStale(pool.idle) IN
    IF live # <<>> THEN
        [conn |-> [kind |-> "pooled", broken |-> FALSE, errored |-> FALSE, err |-> "nil"],
         pool |-> [pool EXCEPT !.idle = Tail(live), !.held[o] = @ + 1]]
    ELSE IF pool.maxActive > 0 /\ Borrowed >= pool.maxActive THEN
        [conn |-> [kind |-> "errconn", broken |-> FALSE, errored |-> TRUE, err |-> "ErrPoolExhausted"],
         pool |-> [pool EXCEPT !.idle = <<>>]]
    ELSE IF ~storeUp THEN
        [conn |-> [kind |-> "errconn", broken |-> FALSE, errored |-> TRUE, err |-> "dial"],
         pool |-> [pool EXCEPT !.idle = <<>>]]
    ELSE
        [conn |-> [kind |-> "pooled", broken |-> FALSE, errored |-> FALSE, err |-> "nil"],
         pool |-> [pool EXCEPT !.idle = <<>>, !.held[o] = @ + 1]]

\* conn.Close() of a connection obtained from the pool, by borrower o: an
\* error connection is not the pool's; a connection that has seen an error
\* is closed for good; any other goes to the front of the idle list, the
\* oldest idle connection being closed when there are more than MaxIdle.
PoolPut(p, o, conn) ==
    IF conn.kind # "pooled" THEN p
    ELSE IF conn.errored THEN [p EXCEPT !.held[o] = @ - 1]
    ELSE LET idle == <<~conn.broken>> \o p.idle IN
         [p EXCEPT !.held[o] = @ - 1,
                   !.idle = IF Len(idle) > DefaultMaxIdle
                            THEN SubSeq(idle, 1, DefaultMaxIdle) ELSE idle]

\* One request/reply exchange on a connection: the error it returns.
ConnErr(conn) ==
    IF conn.kind = "errconn" THEN conn.err
    ELSE IF conn.errored \/ conn.broken THEN "io"
    ELSE "nil"

\* The connection after an exchange that returned error e.
AfterIO(conn, e) ==
    IF conn.kind = "pooled" /\ e # "nil" THEN [conn EXCEPT !.errored = TRUE, !.err = e]
    ELSE conn

\* ------------------------------------------------- Do and HMSet (callers)
\* A caller outside any call.  sent holds the requests of the call in the
\* order they were issued, applied the requests of the call the store has
\* executed, each with the reply it gave.
IdleThread ==
    [pc |-> "idle", kind |-> "none", conn |-> NoConn, expire |-> 0,
     gets |-> 0, reqs |-> 0, closes |-> 0, sent |-> <<>>, applied |-> <<>>,
     err |-> "nil"]

\* Do, line 1: conn := c.pool.Get(); defer conn.Close()
DoGet(t) ==
    /\ thr[t].pc = "idle"
    /\ LET g == PoolGet(t) IN
       /\ pool' = g.pool
       /\ thr' = [thr EXCEPT ![t] = [IdleThread EXCEPT !.pc = "do", !.kind = "Do",
                                                      !.conn = g.conn, !.gets = 1]]
    /\ UNCHANGED <<storeUp, outages, sub, inbox, published, delivered>>
    /\ UNCHANGED <<lifeVars, codecVars>>

\* Do, line 2: return conn.Do(commandName, args...)
DoCmd(t) ==
    /\ thr[t].pc = "do"
    /\ LET e == ConnErr(thr[t].conn) IN
       thr' = [thr EXCEPT ![t].pc = "defer", ![t].reqs = @ + 1,
                          ![t].sent = Append(@, "DO"),
                          ![t].conn = AfterIO(@, e), ![t].err = e]
    /\ UNCHANGED <<pool, storeUp, outages, sub, inbox, published, delivered>>
    /\ UNCHANGED <<lifeVars, codecVars>>

\* A Do that closes the connection only after a successful request.
DeferredClose_OnlyOnSuccess(t) ==
    /\ thr[t].pc = "defer"
    /\ pool' = IF thr[t].err = "nil" THEN PoolPut(pool, t, thr[t].conn) ELSE pool
    /\ thr' = [thr EXCEPT ![t].pc = "idle", ![t].conn = NoConn, ![t].closes = @ + 1]
    /\ UNCHANGED <<storeUp, outages, sub, inbox, published, delivered>>
    /\ UNCHANGED <<lifeVars, codecVars>>

\* The deferred conn.Close() of Do and of HMSet, run on every return path.
DeferredClose(t) ==
    /\ thr[t].pc = "defer"
    /\ pool' = PoolPut(pool, t, thr[t].conn)
    /\ thr' = [thr EXCEPT ![t].pc = "idle", ![t].conn = NoConn, ![t].closes = @ + 1]
    /\ UNCHANGED <<storeUp, outages, sub, inbox, published, delivered>>
    /\ UNCHANGED <<lifeVars, codecVars>>

\* HMSet: conn := c.pool.Get(); defer conn.Close()
HMSetGet(t, expire) ==
    /\ thr[t].pc = "idle"
    /\ LET g == PoolGet(t) IN
       /\ pool' = g.pool
       /\ thr' = [thr EXCEPT ![t] = [IdleThread EXCEPT !.pc = "hmSend", !.kind = "HMSet",
                                                      !.conn = g.conn, !.gets = 1,
                                                      !.expire = expire]]
    /\ UNCHANGED <<storeUp, outages, sub, inbox, published, delivered>>
    /\ UNCHANGED <<lifeVars, codecVars>>

\* conn.Send buffers the command; it fails only on a connection that already
\* carries an error (an error connection, or one whose earlier I/O failed).
SendErr(conn) ==
    IF conn.kind = "errconn" THEN conn.err
    ELSE IF conn.errored THEN "io" ELSE "nil"

\* HMSet: err = conn.Send("HMSET", ...); if err != nil { return }
HMSetSendHMSET(t) ==
    /\ thr[t].pc = "hmSend"
    /\ LET e == SendErr(thr[t].conn) IN
       thr' = [thr EXCEPT ![t].pc = IF e # "nil" THEN "defer" ELSE "hmExpire",
                          ![t].reqs = @ + 1,
                          ![t].sent = Append(@, "HMSET"), ![t].err = e]
    /\ UNCHANGED <<pool, storeUp, outages, sub, inbox, published, delivered>>
    /\ UNCHANGED <<lifeVars, codecVars>>

\* A HMSet that sends EXPIRE whatever the value of expire.
HMSetSendEXPIRE_Always(t) ==
    /\ thr[t].pc = "hmExpire"
    /\ LET e == SendErr(thr[t].conn) IN
       thr' = [thr EXCEPT ![t].pc = IF e # "nil" THEN "defer" ELSE "hmFlush",
                          ![t].reqs = @ + 1,
                          ![t].sent = Append(@, "EXPIRE"), ![t].err = e]
    /\ UNCHANGED <<pool, storeUp, outages, sub, inbox, published, delivered>>
    /\ UNCHANGED <<lifeVars, codecVars>>

\* HMSet: if expire > 0 { err = conn.Send("EXPIRE", ...) }; if err != nil { return }
HMSetSendEXPIRE(t) ==
    /\ thr[t].pc = "hmExpire"
    /\ IF thr[t].expire > 0
       THEN LET e == SendErr(thr[t].conn) IN
            thr' = [thr EXCEPT ![t].pc = IF e # "nil" THEN "defer" ELSE "hmFlush",
                               ![t].reqs = @ + 1,
                               ![t].sent = Append(@, "EXPIRE"), ![t].err = e]
       ELSE thr' = [thr EXCEPT ![t].pc = "hmFlush"]
    /\ UNCHANGED <<pool, storeUp, outages, sub, inbox, published, delivered>>
    /\ UNCHANGED <<lifeVars, codecVars>>

\* The replies of the store to a request: success or an error reply.
ReplyErrs == {"nil", "ERR"}

\* The store executes the buffered requests in order and answers each.
StoreApplies(sent, r1, r2) ==
    [i \in 1..Len(sent) |-> [cmd |-> sent[i], err |-> IF i = 1 THEN r1 ELSE r2]]

\* HMSet: conn.Flush() -- its error is dropped, but stays on the connection.
\* On a live connection the buffered requests reach the store, which
\* answers HMSET with r1 and EXPIRE with r2.
HMSetFlush(t, r1, r2) ==
    /\ thr[t].pc = "hmFlush"
    /\ LET e == ConnErr(thr[t].conn) IN
       thr' = [thr EXCEPT ![t].pc = "hmRecv",
                          ![t].conn = AfterIO(@, e),
                          ![t].applied = IF e = "nil"
                                         THEN StoreApplies(thr[t].sent, r1, r2)
                                         ELSE <<>>]
    /\ UNCHANGED <<pool, storeUp, outages, sub, inbox, published, delivered>>
    /\ UNCHANGED <<lifeVars, codecVars>>

\* HMSet: _, err = conn.Receive(); return -- one Receive: a transport
\* error, or the first pending reply, which is the reply to HMSET; an error
\* reply leaves the connection usable.  The reply to EXPIRE is left to the
\* deferred Close, which discards it.
HMSetReceive(t) ==
    /\ thr[t].pc = "hmRecv"
    /\ LET e == ConnErr(thr[t].conn) IN
       thr' = [thr EXCEPT ![t].pc = "defer", ![t].conn = AfterIO(@, e),
                          ![t].err = IF e # "nil" THEN e
                                     ELSE thr[t].applied[1].err]
    /\ UNCHANGED <<pool, storeUp, outages, sub, inbox, published, delivered>>
    /\ UNCHANGED <<lifeVars, codecVars>>

\* ------------------------------------------------ Subscribe (the engine)
NoFrame == [pc |-> "none", handler |-> "none", channels |-> {}, conn |-> NoConn,
            byCaller |-> FALSE]
NoPair == [state |-> "none", handler |-> "none", channels |-> {}, conn |-> NoConn]

InitSub ==
    [called |-> FALSE, orig |-> [handler |-> "none", channels |-> {}],
     callerRet |-> "none", frame |-> NoFrame, pair |-> NoPair,
     loops |-> 0, fails |-> 0, oks |-> 0]

RECURSIVE Confirmations(_)
\* The store answers SUBSCRIBE with one confirmation notice per channel.
Confirmations(chs) ==
    IF chs = {} THEN <<>>
    ELSE LET c == CHOOSE x \in chs : TRUE IN
         <<[type |-> "subscription", channel |-> c, data |-> 0]>>
             \o Confirmations(chs \ {c})

\* The caller's invocation: Subscribe(onMessage, channels...)
SubscribeCall(h, chs) ==
    /\ ~sub.called
    /\ sub' = [sub EXCEPT !.called = TRUE,
                          !.orig = [handler |-> h, channels |-> chs],
                          !.callerRet = "pending",
                          !.frame = [pc |-> "get", handler |-> h, channels |-> chs,
                                     conn |-> NoConn, byCaller |-> TRUE]]
    /\ UNCHANGED <<pool, storeUp, outages, thr, inbox, published, delivered>>
    /\ UNCHANGED <<lifeVars, codecVars>>

\* Subscribe: conn := c.pool.Get(); psc := redis.PubSubConn{Conn: conn}
SubGet ==
    /\ sub.frame.pc = "get"
    /\ LET g == PoolGet(SubOwner) IN
       /\ pool' = g.pool
       /\ sub' = [sub EXCEPT !.frame.pc = "subscribe", !.frame.conn = g.conn]
    /\ UNCHANGED <<storeUp, outages, thr, inbox, published, delivered>>
    /\ UNCHANGED <<lifeVars, codecVars>>

\* A retry that gives up after the first failure and returns the error.
SubBackoff_GiveUp ==
    /\ sub.frame.pc = "backoff"
    /\ sub' = [sub EXCEPT !.frame = NoFrame,
                          !.callerRet = IF sub.frame.byCaller THEN "err" ELSE @]
    /\ UNCHANGED <<pool, storeUp, outages, thr, inbox, published, delivered>>
    /\ UNCHANGED <<lifeVars, codecVars>>

\* The frame of the recursive call `return c.Subscribe(onMessage, channels...)`:
\* the same handler and channels; the connection of the failed attempt is
\* neither closed nor kept.
RetryFrame(f) == [f EXCEPT !.pc = "get", !.conn = NoConn]

\* What the caller's invocation returns when the subscribe request succeeded:
\* `return err` with err == nil.
SubscribeReturn(f, ret) == IF f.byCaller THEN "nil" ELSE ret

\* Subscribe: err := psc.Subscribe(...); on failure print and go to sleep,
\* on success start the receive loop and the reconnect task and return.
SubSubscribe ==
    /\ sub.frame.pc = "subscribe"
    /\ LET f == sub.frame
           e == ConnErr(f.conn) IN
       IF e # "nil"
       THEN /\ sub' = [sub EXCEPT !.frame.pc = "backoff",
                                  !.frame.conn = AfterIO(f.conn, e),
                                  !.fails = Sat(@)]
            /\ UNCHANGED inbox
       ELSE /\ sub' = [sub EXCEPT !.frame = NoFrame,
                                  !.pair = [state |-> "active", handler |-> f.handler,
                                            channels |-> f.channels, conn |-> f.conn],
                                  !.loops = @ + 1,
                                  !.oks = Sat(@),
                                  !.callerRet = SubscribeReturn(f, @)]
            /\ inbox' = Confirmations(f.channels)
    /\ UNCHANGED <<pool, storeUp, outages, thr, published, delivered>>
    /\ UNCHANGED <<lifeVars, codecVars>>

\* Subscribe: time.Sleep(time.Second); return c.Subscribe(onMessage, channels...)
SubBackoff ==
    /\ sub.frame.pc = "backoff"
    /\ sub' = [sub EXCEPT !.frame = RetryFrame(@)]
    /\ UNCHANGED <<pool, storeUp, outages, thr, inbox, published, delivered>>
    /\ UNCHANGED <<lifeVars, codecVars>>

\* A receive loop that hands every item to the handler, notices included.
RecvItem_NoticesToo ==
    /\ sub.loops > 0
    /\ sub.pair.state = "active"
    /\ inbox # <<>>
    /\ LET v == Head(inbox) IN
       delivered' = Append(delivered, <<sub.pair.handler, v.channel, v.data>>)
    /\ inbox' = Tail(inbox)
    /\ UNCHANGED <<pool, storeUp, outages, thr, sub, published>>
    /\ UNCHANGED <<lifeVars, codecVars>>

\* A receive loop that calls the handler itself, onMessage(v.Channel, v.Data),
\* and so reads the next item only when every invocation has returned.
RecvItem_WaitsForHandler ==
    /\ sub.loops > 0
    /\ sub.pair.state = "active"
    /\ inbox # <<>>
    /\ \A i \in 1..Len(delivered) : Len(delivered[i]) > 3
    /\ LET v == Head(inbox) IN
       delivered' = IF v.type = "message"
                    THEN Append(delivered, <<sub.pair.handler, v.channel, v.data>>)
                    ELSE delivered
    /\ inbox' = Tail(inbox)
    /\ UNCHANGED <<pool, storeUp, outages, thr, sub, published>>
    /\ UNCHANGED <<lifeVars, codecVars>>

\* The receive loop, one item: a message starts a handler invocation
\* (go onMessage(v.Channel, v.Data)), a subscription notice is only printed.
RecvItem ==
    /\ sub.loops > 0
    /\ sub.pair.state = "active"
    /\ inbox # <<>>
    /\ LET v == Head(inbox) IN
       delivered' = IF v.type = "message"
                    THEN Append(delivered, <<sub.pair.handler, v.channel, v.data>>)
                    ELSE delivered
    /\ inbox' = Tail(inbox)
    /\ UNCHANGED <<pool, storeUp, outages, thr, sub, published>>
    /\ UNCHANGED <<lifeVars, codecVars>>

\* The i-th handler invocation returns, nil or an error: it runs on a task
\* of its own and nobody reads what it returns.
HandlerReturn(i, ret) ==
    /\ Len(delivered[i]) = 3
    /\ delivered' = [delivered EXCEPT ![i] = Append(@, ret)]
    /\ UNCHANGED <<pool, storeUp, outages, thr, sub, inbox, published>>
    /\ UNCHANGED <<lifeVars, codecVars>>

\* A receive loop that reports the error and goes on receiving.
RecvError_LoopGoesOn ==
    /\ sub.loops > 0
    /\ sub.pair.state = "active"
    /\ inbox = <<>>
    /\ ConnErr(sub.pair.conn) # "nil"
    /\ sub' = [sub EXCEPT !.pair.state = "quit", !.pair.conn = AfterIO(@, "io")]
    /\ UNCHANGED <<pool, storeUp, outages, thr, inbox, published, delivered>>
    /\ UNCHANGED <<lifeVars, codecVars>>

\* The receive loop on a transport error: quit <- 1; return.  The send on
\* the buffered channel never blocks and the loop calls Receive no more;
\* sub.loops counts the loops that will still call Receive.
RecvError ==
    /\ sub.loops > 0
    /\ sub.pair.state = "active"
    /\ inbox = <<>>
    /\ ConnErr(sub.pair.conn) # "nil"
    /\ sub' = [sub EXCEPT !.loops = @ - 1, !.pair.state = "quit",
                          !.pair.conn = AfterIO(@, "io")]
    /\ UNCHANGED <<pool, storeUp, outages, thr, inbox, published, delivered>>
    /\ UNCHANGED <<lifeVars, codecVars>>

\* The reconnect task: <-quit; time.Sleep(time.Second)
ReconWake ==
    /\ sub.pair.state = "quit"
    /\ sub' = [sub EXCEPT !.pair.state = "slept"]
    /\ UNCHANGED <<pool, storeUp, outages, thr, inbox, published, delivered>>
    /\ UNCHANGED <<lifeVars, codecVars>>

\* The reconnect task: psc.Close(); c.Subscribe(onMessage, channels...)
ReconResubscribe ==
    /\ sub.pair.state = "slept"
    /\ pool' = PoolPut(pool, SubOwner, sub.pair.conn)
    /\ sub' = [sub EXCEPT !.pair = NoPair,
                          !.frame = [pc |-> "get", handler |-> sub.pair.handler,
                                     channels |-> sub.pair.channels,
                                     conn |-> NoConn, byCaller |-> FALSE]]
    /\ UNCHANGED <<storeUp, outages, thr, inbox, published, delivered>>
    /\ UNCHANGED <<lifeVars, codecVars>>

\* ------------------------------------------------------------ environment
Break(conn) == IF conn.kind = "pooled" THEN [conn EXCEPT !.broken = TRUE] ELSE conn

\* The store becomes unreachable: every open connection loses its transport.
StoreDown ==
    /\ storeUp
    /\ outages < MaxOutages
    /\ storeUp' = FALSE
    /\ outages' = outages + 1
    /\ pool' = [pool EXCEPT !.idle = [i \in 1..Len(pool.idle) |-> FALSE]]
    /\ thr' = [t \in Threads |-> [thr[t] EXCEPT !.conn = Break(@)]]
    /\ sub' = [sub EXCEPT !.frame.conn = Break(@), !.pair.conn = Break(@)]
    /\ UNCHANGED <<inbox, published, delivered>>
    /\ UNCHANGED <<lifeVars, codecVars>>

\* The store is reachable again.
StoreUp ==
    /\ ~storeUp
    /\ storeUp' = TRUE
    /\ UNCHANGED <<pool, outages, thr, sub, inbox, published, delivered>>
    /\ UNCHANGED <<lifeVars, codecVars>>

\* Some client publishes on a channel: the store pushes the message on every
\* live connection subscribed to it.
Publish(ch) ==
    /\ storeUp
    /\ published < MaxMsgs
    /\ published' = published + 1
    /\ inbox' = IF /\ sub.pair.state = "active"
                   /\ ~sub.pair.conn.broken
                   /\ ch \in sub.pair.channels
                THEN Append(inbox, [type |-> "message", channel |-> ch,
                                    data |-> published + 1])
                ELSE inbox
    /\ UNCHANGED <<pool, storeUp, outages, thr, sub, delivered>>
    /\ UNCHANGED <<lifeVars, codecVars>>

\* ------------------------------------------- New, StartAndGC, closePool
\* A codec function is "nil" (unset), "json" (json.Marshal / json.Unmarshal)
\* or "custom" (a function the caller supplies in Options).
CodecFns == {"nil", "custom"}

NoOptions == [kind |-> "none", Marshal |-> "nil", Unmarshal |-> "nil",
              Prefix |-> <<>>, MaxActive |-> 0]

\* r := &Cacher{}
NewCacher ==
    [started |-> FALSE, marshal |-> "nil", unmarshal |-> "nil", prefix |-> <<>>,
     hasPool |-> FALSE, poolClosed |-> FALSE, startErr |-> "none",
     opts |-> NoOptions]

OptionsValues ==
    [kind : {"Options"}, Marshal : CodecFns, Unmarshal : CodecFns,
     Prefix : {<<>>, <<"p_">>}, MaxActive : {0}]

\* A value that is not an Options record, handed to StartAndGC.
OtherValues == {[NoOptions EXCEPT !.kind = "other"]}

\* StartAndGC, the Options case: the defaults of the codec functions.  A
\* function the caller supplied is not stored, and neither is the prefix.
SetCodecs(c, opts) ==
    [c EXCEPT !.marshal = IF opts.Marshal = "nil" THEN "json" ELSE @,
              !.unmarshal = IF opts.Unmarshal = "nil" THEN "json" ELSE @]

\* The Cacher after c.StartAndGC(options) returned.
Started(c, options) ==
    IF options.kind = "Options"
    THEN [SetCodecs(c, options) EXCEPT !.started = TRUE, !.hasPool = TRUE,
                                       !.poolClosed = FALSE, !.startErr = "nil",
                                       !.opts = options]
    ELSE [c EXCEPT !.startErr = "Unsupported options"]

\* closePool: a new channel, signal.Notify for it, and a task waiting on it.
RegisterHook(hs, c) == Append(hs, [cacher |-> c, pc |-> "waiting"])

\* A StartAndGC that starts the signal listener before it looks at options.
StartAndGC_HookFirst(c, options) ==
    /\ ~exited
    /\ Len(hooks) < MaxHooks
    /\ cachers' = [cachers EXCEPT ![c] = Started(@, options)]
    /\ hooks' = RegisterHook(hooks, c)
    /\ UNCHANGED <<signal, exited, single, dial>>
    /\ UNCHANGED <<poolVars, codecVars>>

\* c.StartAndGC(options), on a Cacher of the process.
StartAndGC(c, options) ==
    /\ ~exited
    /\ Len(hooks) < MaxHooks
    /\ cachers' = [cachers EXCEPT ![c] = Started(@, options)]
    /\ hooks' = IF options.kind = "Options" THEN RegisterHook(hooks, c) ELSE hooks
    /\ UNCHANGED <<signal, exited, single, dial>>
    /\ UNCHANGED <<poolVars, codecVars>>

\* New(options): r := &Cacher{}; err := r.StartAndGC(options); return r, err
New(c, options) ==
    /\ cachers[c] = NewCacher
    /\ StartAndGC(c, options)

\* The process receives SIGINT or SIGTERM: the runtime sends it on every
\* channel registered for it; with none registered the process ends at once.
Signal(s) ==
    /\ ~exited
    /\ signal = "none"
    /\ signal' = s
    /\ hooks' = [i \in 1..Len(hooks) |->
                    IF hooks[i].pc = "waiting" THEN [hooks[i] EXCEPT !.pc = "woken"]
                    ELSE hooks[i]]
    /\ exited' = (hooks = <<>>)
    /\ UNCHANGED <<cachers, single, dial>>
    /\ UNCHANGED <<poolVars, codecVars>>

\* The listener of closePool: <-ch; c.pool.Close()
HookClose(i) ==
    /\ ~exited
    /\ hooks[i].pc = "woken"
    /\ hooks' = [hooks EXCEPT ![i].pc = "closed"]
    /\ cachers' = [cachers EXCEPT ![hooks[i].cacher].poolClosed = TRUE]
    /\ UNCHANGED <<signal, exited, single, dial>>
    /\ UNCHANGED <<poolVars, codecVars>>

\* The listener of closePool: os.Exit(0)
HookExit(i) ==
    /\ ~exited
    /\ hooks[i].pc = "closed"
    /\ hooks' = [hooks EXCEPT ![i].pc = "exited"]
    /\ exited' = TRUE
    /\ UNCHANGED <<cachers, signal, single, dial>>
    /\ UNCHANGED <<poolVars, codecVars>>

\* ------------------------------------------- redis.go: New, GetInstance
\* The arguments of New(ip, port, password, db).
NoArgs == [ip |-> "", port |-> 0, password |-> "", db |-> 0]
SingleArgs ==
    {[ip |-> "127.0.0.1", port |-> 6379, password |-> "", db |-> 0],
     [ip |-> "127.0.0.1", port |-> 6379, password |-> "pw", db |-> 1]}

\* redisInstance == nil
NoInstance == [id |-> 0, args |-> NoArgs]

IdleCaller ==
    [pc |-> "idle", fn |-> "none", args |-> NoArgs, ret |-> NoInstance,
     panicked |-> FALSE, after |-> FALSE]

\* The package variables once and redisInstance before any call, the pools
\* and shutdown hooks created so far, and the callers.  early holds the
\* arguments of the New calls that began before any New call returned,
\* returned says whether a New call has returned.
InitSingle ==
    [once |-> "new", instance |-> NoInstance, pools |-> 0, hooks |-> 0,
     early |-> {}, returned |-> FALSE,
     callers |-> [t \in Threads |-> IdleCaller]]

\* A caller enters New(ip, port, password, db).
RedisNewCall(t, args) ==
    /\ single.callers[t].pc = "idle"
    /\ single' = [single EXCEPT
                    !.callers[t] = [IdleCaller EXCEPT !.pc = "once", !.fn = "New",
                                                      !.args = args],
                    !.early = IF single.returned THEN @ ELSE @ \cup {args}]
    /\ UNCHANGED <<cachers, hooks, signal, exited, dial>>
    /\ UNCHANGED <<poolVars, codecVars>>

\* A once.Do that runs its function on every call.
OnceDo_EveryCall(t) ==
    /\ single.callers[t].pc = "once"
    /\ single' = [single EXCEPT !.once = "running", !.callers[t].pc = "pool"]
    /\ UNCHANGED <<cachers, hooks, signal, exited, dial>>
    /\ UNCHANGED <<poolVars, codecVars>>

\* once.Do(func() {...}): the first caller runs the function, a caller that
\* arrives while it runs waits, a caller that arrives later skips it.
OnceDo(t) ==
    /\ single.callers[t].pc = "once"
    /\ single.once # "running"
    /\ single' = IF single.once = "new"
                 THEN [single EXCEPT !.once = "running", !.callers[t].pc = "pool"]
                 ELSE [single EXCEPT !.callers[t].pc = "return"]
    /\ UNCHANGED <<cachers, hooks, signal, exited, dial>>
    /\ UNCHANGED <<poolVars, codecVars>>

\* pool := &redis.Pool{...}; redisInstance = &Redis{pool: pool}
OnceMakeInstance(t) ==
    /\ single.callers[t].pc = "pool"
    /\ single' = [single EXCEPT
                    !.pools = @ + 1,
                    !.instance = [id |-> single.pools + 1,
                                  args |-> single.callers[t].args],
                    !.callers[t].pc = "hook"]
    /\ UNCHANGED <<cachers, hooks, signal, exited, dial>>
    /\ UNCHANGED <<poolVars, codecVars>>

\* redisInstance.closePool(), the end of the function of once.Do
OnceClosePool(t) ==
    /\ single.callers[t].pc = "hook"
    /\ single' = [single EXCEPT !.hooks = @ + 1, !.once = "done",
                                !.callers[t].pc = "return"]
    /\ UNCHANGED <<cachers, hooks, signal, exited, dial>>
    /\ UNCHANGED <<poolVars, codecVars>>

\* return redisInstance
RedisNewReturn(t) ==
    /\ single.callers[t].pc = "return"
    /\ single' = [single EXCEPT !.callers[t].pc = "idle",
                                !.callers[t].ret = single.instance,
                                !.returned = TRUE]
    /\ UNCHANGED <<cachers, hooks, signal, exited, dial>>
    /\ UNCHANGED <<poolVars, codecVars>>

\* GetInstance(): panics when redisInstance is nil, returns it otherwise.
GetInstance(t) ==
    /\ single.callers[t].pc = "idle"
    /\ single' = [single EXCEPT
                    !.callers[t] = [IdleCaller EXCEPT
                                       !.fn = "GetInstance",
                                       !.ret = single.instance,
                                       !.panicked = (single.instance = NoInstance),
                                       !.after = single.returned]]
    /\ UNCHANGED <<cachers, hooks, signal, exited, dial>>
    /\ UNCHANGED <<poolVars, codecVars>>

\* --------------------------------------------------- the pool's Dial
\* What Dial reads of the configuration: the password and the database.
DialConfigs == [password : {"", "pw"}, db : {0, 1}]

NoDialled == [conn |-> FALSE, err |-> "nil"]

\* Dial has not been called.  steps holds what the running or the last call
\* has attempted, in order; open says whether its connection is open,
\* closed whether Dial closed it; ret is what it returned; calls counts the
\* calls so far and made the connections they returned.
InitDial ==
    [pc |-> "idle", cfg |-> [password |-> "", db |-> 0], steps |-> <<>>,
     open |-> FALSE, closed |-> FALSE, ret |-> NoDialled, calls |-> 0,
     made |-> 0]

\* The pool calls Dial for a new connection.
DialCall(cfg) ==
    /\ dial.pc \in {"idle", "done"}
    /\ dial.calls < MaxDials
    /\ dial' = [InitDial EXCEPT !.pc = "dial", !.cfg = cfg,
                                !.calls = dial.calls + 1, !.made = dial.made]
    /\ UNCHANGED <<cachers, hooks, signal, exited, single>>
    /\ UNCHANGED <<poolVars, codecVars>>

\* conn, err := redis.Dial(opts.Network, opts.Addr); if err != nil { return nil, err }
DialStep(ok) ==
    /\ dial.pc = "dial"
    /\ dial' = IF ok
               THEN [dial EXCEPT !.steps = Append(@, <<"dial">>), !.open = TRUE,
                                 !.pc = IF dial.cfg.password # "" THEN "auth"
                                        ELSE "select"]
               ELSE [dial EXCEPT !.steps = Append(@, <<"dial">>), !.pc = "done",
                                 !.ret = [conn |-> FALSE, err |-> "dial"]]
    /\ UNCHANGED <<cachers, hooks, signal, exited, single>>
    /\ UNCHANGED <<poolVars, codecVars>>

\* if opts.Password != "" { if _, err := conn.Do("AUTH", opts.Password);
\* err != nil { conn.Close(); return nil, err } }
AuthStep(ok) ==
    /\ dial.pc = "auth"
    /\ dial' = IF ok
               THEN [dial EXCEPT !.steps = Append(@, <<"AUTH", dial.cfg.password>>), !.pc = "select"]
               ELSE [dial EXCEPT !.steps = Append(@, <<"AUTH", dial.cfg.password>>), !.pc = "done",
                                 !.open = FALSE, !.closed = TRUE,
                                 !.ret = [conn |-> FALSE, err |-> "AUTH"]]
    /\ UNCHANGED <<cachers, hooks, signal, exited, single>>
    /\ UNCHANGED <<poolVars, codecVars>>

\* A Dial that returns the error of SELECT and leaves the connection open.
SelectStep_NoClose(ok) ==
    /\ dial.pc = "select"
    /\ dial' = IF ok
               THEN [dial EXCEPT !.steps = Append(@, <<"SELECT", dial.cfg.db>>), !.pc = "done",
                                 !.made = @ + 1,
                                 !.ret = [conn |-> TRUE, err |-> "nil"]]
               ELSE [dial EXCEPT !.steps = Append(@, <<"SELECT", dial.cfg.db>>), !.pc = "done",
                                 !.ret = [conn |-> FALSE, err |-> "SELECT"]]
    /\ UNCHANGED <<cachers, hooks, signal, exited, single>>
    /\ UNCHANGED <<poolVars, codecVars>>

\* if _, err := conn.Do("SELECT", opts.Db); err != nil { conn.Close();
\* return nil, err }; return conn, err
SelectStep(ok) ==
    /\ dial.pc = "select"
    /\ dial' = IF ok
               THEN [dial EXCEPT !.steps = Append(@, <<"SELECT", dial.cfg.db>>), !.pc = "done",
                                 !.made = @ + 1,
                                 !.ret = [conn |-> TRUE, err |-> "nil"]]
               ELSE [dial EXCEPT !.steps = Append(@, <<"SELECT", dial.cfg.db>>), !.pc = "done",
                                 !.open = FALSE, !.closed = TRUE,
                                 !.ret = [conn |-> FALSE, err |-> "SELECT"]]
    /\ UNCHANGED <<cachers, hooks, signal, exited, single>>
    /\ UNCHANGED <<poolVars, codecVars>>

\* ------------------------------------------------------ the value codec
\* Texts are sequences of symbols; a Go value is [t |-> type, v |-> payload].
DigitChars == <<"0", "1", "2", "3", "4", "5", "6", "7", "8", "9">>
IsDigit(ch) == \E d \in 1..Len(DigitChars) : DigitChars[d] = ch
DigitVal(ch) == (CHOOSE d \in 1..Len(DigitChars) : DigitChars[d] = ch) - 1

RECURSIVE NatToStr(_)
NatToStr(n) ==
    IF n < Len(DigitChars) THEN <<DigitChars[n + 1]>>
    ELSE NatToStr(n \div Len(DigitChars)) \o <<DigitChars[(n % Len(DigitChars)) + 1]>>

\* strconv.AppendInt(n, 10)
IntToStr(n) == IF n < 0 THEN <<"-">> \o NatToStr(-n) ELSE NatToStr(n)

RECURSIVE DigitsVal(_, _)
DigitsVal(s, acc) ==
    IF s = <<>> THEN acc
    ELSE DigitsVal(Tail(s), acc * Len(DigitChars) + DigitVal(Head(s)))

\* strconv.ParseInt(s, 10, 0): an optional sign and at least one digit.
ParseInt(s) ==
    LET signed == s # <<>> /\ Head(s) \in {"-", "+"}
        body == IF signed THEN Tail(s) ELSE s
    IN IF body = <<>> \/ \E i \in 1..Len(body) : ~IsDigit(body[i])
       THEN [ok |-> FALSE, val |-> 0]
       ELSE [ok |-> TRUE,
             val |-> IF signed /\ Head(s) = "-" THEN 0 - DigitsVal(body, 0)
                     ELSE DigitsVal(body, 0)]

\* strconv.ParseBool
ParseBool(s) ==
    IF s \in {<<"1">>, <<"t">>, <<"T">>, <<"TRUE">>, <<"true">>, <<"True">>}
    THEN [ok |-> TRUE, val |-> TRUE]
    ELSE IF s \in {<<"0">>, <<"f">>, <<"F">>, <<"FALSE">>, <<"false">>, <<"False">>}
    THEN [ok |-> TRUE, val |-> FALSE]
    ELSE [ok |-> FALSE, val |-> FALSE]

Nil == [t |-> "nil", v |-> 0]
Str(s) == [t |-> "string", v |-> s]

\* The types of the first case of encode's type switch.
PrimitiveCase ==
    {"string", "int", "uint", "int8", "int16", "int32", "int64",
     "float32", "float64", "bool"}

SignedTypes == {"int", "int8", "int16", "int32", "int64"}
UnsignedTypes == {"uint", "uint8", "uint16", "uint32", "uint64"}
FloatTypes == {"float32", "float64"}

Strings == {<<>>, <<"a">>, <<"2", "3">>}
Ints == {0 - 7, 0, 23}
Users == {[Name |-> <<>>, Age |-> 0], [Name |-> <<"a">>, Age |-> 23]}

GoValues ==
    {Str(s) : s \in Strings}
    \cup [t : {"int"}, v : Ints]
    \cup {[t |-> "int64", v |-> 23], [t |-> "int8", v |-> 0 - 7]}
    \cup {[t |-> "uint", v |-> 5], [t |-> "uint8", v |-> 5]}
    \cup {[t |-> "float64", v |-> <<"1", ".", "5">>]}
    \cup [t : {"bool"}, v : BOOLEAN]
    \cup [t : {"struct"}, v : Users]
    \cup {[t |-> "chan", v |-> 0]}

\* One value for each way through encode: passed through, marshalled to a
\* number, marshalled to an object, not marshallable.
PushValues ==
    {Str(<<"a">>), [t |-> "int", v |-> 23], [t |-> "uint8", v |-> 5],
     [t |-> "struct", v |-> [Name |-> <<"a">>, Age |-> 23]],
     [t |-> "chan", v |-> 0]}

\* json.Marshal: the text, or an error for a type JSON cannot represent.
JSONMarshal(val) ==
    CASE val.t = "string" -> [ok |-> TRUE, text |-> <<"\"">> \o val.v \o <<"\"">>]
      [] val.t \in SignedTypes \cup UnsignedTypes ->
            [ok |-> TRUE, text |-> IntToStr(val.v)]
      [] val.t \in FloatTypes -> [ok |-> TRUE, text |-> val.v]
      [] val.t = "bool" ->
            [ok |-> TRUE, text |-> IF val.v THEN <<"true">> ELSE <<"false">>]
      [] val.t = "struct" ->
            [ok |-> TRUE,
             text |-> <<"{", "\"", "Name", "\"", ":", "\"">> \o val.v.Name
                      \o <<"\"", ",", "\"", "Age", "\"", ":">>
                      \o IntToStr(val.v.Age) \o <<"}">>]
      [] OTHER -> [ok |-> FALSE, text |-> <<>>]

\* A marshal function supplied in Options: some other encoding of the same
\* values, here the JSON text behind a marker.
CustomMarshal(val) ==
    LET j == JSONMarshal(val) IN
    IF j.ok THEN [ok |-> TRUE, text |-> <<"#">> \o j.text] ELSE j

\* The value of a JSON text starting at position i: a string or a number.
JSONValueAt(text, i) ==
    IF i > Len(text) THEN [ok |-> FALSE, kind |-> "none", val |-> 0, next |-> i]
    ELSE IF text[i] = "\"" THEN
        LET ends == {j \in (i + 1)..Len(text) : text[j] = "\""} IN
        IF ends = {} THEN [ok |-> FALSE, kind |-> "none", val |-> 0, next |-> i]
        ELSE LET j == CHOOSE x \in ends : \A y \in ends : x <= y IN
             [ok |-> TRUE, kind |-> "string", val |-> SubSeq(text, i + 1, j - 1),
              next |-> j + 1]
    ELSE
        LET stops == {j \in i..Len(text) : text[j] \in {",", "}"}}
            j == IF stops = {} THEN Len(text) + 1
                 ELSE CHOOSE x \in stops : \A y \in stops : x <= y
            n == ParseInt(SubSeq(text, i, j - 1)) IN
        IF n.ok /\ text[i] # "+"
        THEN [ok |-> TRUE, kind |-> "number", val |-> n.val, next |-> j]
        ELSE [ok |-> FALSE, kind |-> "none", val |-> 0, next |-> i]

RECURSIVE JSONMembers(_, _, _)
\* The members of a JSON object from position i on, assigned to the fields
\* of the target record: a field of the text that the target does not have
\* is skipped, a value of the wrong kind is an error.
JSONMembers(text, i, target) ==
    IF i + 3 > Len(text) \/ text[i] # "\"" \/ text[i + 2] # "\"" \/ text[i + 3] # ":"
    THEN [ok |-> FALSE, val |-> target]
    ELSE
        LET name == text[i + 1]
            v == JSONValueAt(text, i + 4)
            kindOk == \/ name \notin DOMAIN target
                      \/ (name = "Name" /\ v.kind = "string")
                      \/ (name = "Age" /\ v.kind = "number")
            t2 == IF name \in DOMAIN target /\ kindOk
                  THEN [target EXCEPT ![name] = v.val] ELSE target IN
        IF ~v.ok \/ ~kindOk \/ v.next > Len(text) THEN [ok |-> FALSE, val |-> target]
        ELSE IF text[v.next] = "}" THEN [ok |-> v.next = Len(text), val |-> t2]
        ELSE IF text[v.next] = "," THEN JSONMembers(text, v.next + 1, t2)
        ELSE [ok |-> FALSE, val |-> target]

\* json.Unmarshal(text, &target) for a struct target.
JSONUnmarshal(text, target) ==
    IF Len(text) >= 2 /\ text[1] = "{"
    THEN IF text = <<"{", "}">> THEN [ok |-> TRUE, val |-> target]
         ELSE JSONMembers(text, 2, target)
    ELSE [ok |-> FALSE, val |-> target]

\* The unmarshal function that goes with CustomMarshal.
CustomUnmarshal(text, target) ==
    IF text # <<>> /\ Head(text) = "#" THEN JSONUnmarshal(Tail(text), target)
    ELSE [ok |-> FALSE, val |-> target]

\* Calling a codec function value; calling a nil function value panics.
CallMarshal(fn, val) ==
    CASE fn = "json" -> JSONMarshal(val) @@ [panicked |-> FALSE]
      [] fn = "custom" -> CustomMarshal(val) @@ [panicked |-> FALSE]
      [] OTHER -> [ok |-> FALSE, text |-> <<>>, panicked |-> TRUE]

CallUnmarshal(fn, text, target) ==
    CASE fn = "json" -> JSONUnmarshal(text, target) @@ [panicked |-> FALSE]
      [] fn = "custom" -> CustomUnmarshal(text, target) @@ [panicked |-> FALSE]
      [] OTHER -> [ok |-> FALSE, val |-> target, panicked |-> TRUE]

\* c.encode(val): <<value, error>>, with the codec function it called.
encode(c, val) ==
    IF val.t \in PrimitiveCase
    THEN [value |-> val, err |-> "nil", called |-> "none", panicked |-> FALSE]
    ELSE LET m == CallMarshal(c.marshal, val) IN
         IF m.panicked
         THEN [value |-> Nil, err |-> "nil", called |-> c.marshal, panicked |-> TRUE]
         ELSE IF ~m.ok
         THEN [value |-> Nil, err |-> "marshal", called |-> c.marshal, panicked |-> FALSE]
         ELSE [value |-> Str(m.text), err |-> "nil", called |-> c.marshal,
               panicked |-> FALSE]

\* A reply of the store: absent, a bulk string, an integer or a status.
NilReply == [k |-> "nil", text |-> <<>>, n |-> 0]
Bulk(text) == [k |-> "bulk", text |-> text, n |-> 0]
Status(text) == [k |-> "status", text |-> text, n |-> 0]

\* String(reply, err), helper.go: redis.String
String(reply, err) ==
    IF err # "nil" THEN [val |-> <<>>, err |-> err]
    ELSE CASE reply.k \in {"bulk", "status"} -> [val |-> reply.text, err |-> "nil"]
           [] reply.k = "nil" -> [val |-> <<>>, err |-> "ErrNil"]
           [] OTHER -> [val |-> <<>>, err |-> "unexpected type"]

\* Int(reply, err) and Int64(reply, err), helper.go: redis.Int, redis.Int64
\* (Int is the set of integers in TLA+, so the helper is IntOf here).
IntOf(reply, err) ==
    IF err # "nil" THEN [val |-> 0, err |-> err]
    ELSE CASE reply.k = "int" -> [val |-> reply.n, err |-> "nil"]
           [] reply.k = "bulk" ->
                LET n == ParseInt(reply.text) IN
                [val |-> n.val, err |-> IF n.ok THEN "nil" ELSE "syntax"]
           [] reply.k = "nil" -> [val |-> 0, err |-> "ErrNil"]
           [] OTHER -> [val |-> 0, err |-> "unexpected type"]

Int64(reply, err) == IntOf(reply, err)

\* Bool(reply, err), helper.go: redis.Bool
Bool(reply, err) ==
    IF err # "nil" THEN [val |-> FALSE, err |-> err]
    ELSE CASE reply.k = "int" -> [val |-> reply.n # 0, err |-> "nil"]
           [] reply.k = "bulk" ->
                LET b == ParseBool(reply.text) IN
                [val |-> b.val, err |-> IF b.ok THEN "nil" ELSE "syntax"]
           [] reply.k = "nil" -> [val |-> FALSE, err |-> "ErrNil"]
           [] OTHER -> [val |-> FALSE, err |-> "unexpected type"]

\* A decode that does not look at the error of String.
decode_ErrIgnored(c, reply, err, target) ==
    LET str == String(reply, err)
        u == CallUnmarshal(c.unmarshal, str.val, target) IN
    [err |-> IF u.ok \/ u.panicked THEN "nil" ELSE "unmarshal",
     target |-> u.val, called |-> c.unmarshal, panicked |-> u.panicked]

\* c.decode(reply, err, val): the error and the target afterwards.
decode(c, reply, err, target) ==
    LET str == String(reply, err) IN
    IF str.err # "nil"
    THEN [err |-> str.err, target |-> target, called |-> "none", panicked |-> FALSE]
    ELSE LET u == CallUnmarshal(c.unmarshal, str.val, target) IN
         [err |-> IF u.ok \/ u.panicked THEN "nil" ELSE "unmarshal",
          target |-> u.val, called |-> c.unmarshal, panicked |-> u.panicked]

\* c.getKey(key)
getKey(c, key) == c.prefix \o key

\* How redigo writes a command argument on the wire.
WriteArg(val) ==
    CASE val.t = "string" -> val.v
      [] val.t \in SignedTypes \cup UnsignedTypes -> IntToStr(val.v)
      [] val.t \in FloatTypes -> val.v
      [] val.t = "bool" -> IF val.v THEN <<"1">> ELSE <<"0">>
      [] OTHER -> <<>>

\* ------------------------------------------- Set, the getters, the store
Keys == {<<"k">>}
ExpireValues == {0 - 1, 0, 1}

NoCmd == [name |-> "none", key |-> <<>>, expire |-> 0, text |-> <<>>, src |-> Nil]

\* A Set that never asks for an expiry.
SetCommand_NoExpiry(key, expire, value) ==
    [name |-> "SET", key |-> key, expire |-> 0,
     text |-> WriteArg(value), src |-> Nil]

\* A Set whose SETEX arguments are in the wrong order.
SetCommand_ArgsSwapped(key, expire, value) ==
    IF expire > 0
    THEN [name |-> "SETEX", key |-> key,
          expire |-> ParseInt(WriteArg(value)).val,
          text |-> IntToStr(expire), src |-> Nil]
    ELSE [name |-> "SET", key |-> key, expire |-> 0,
          text |-> WriteArg(value), src |-> Nil]

\* The commands the operations issue; src is the Go value the text was
\* written from.
SetCommand(key, expire, value) ==
    IF expire > 0
    THEN [name |-> "SETEX", key |-> key, expire |-> expire,
          text |-> WriteArg(value), src |-> Nil]
    ELSE [name |-> "SET", key |-> key, expire |-> 0,
          text |-> WriteArg(value), src |-> Nil]

GetCommand(key) == [NoCmd EXCEPT !.name = "GET", !.key = key]

PushCommand(name, key, value) ==
    [NoCmd EXCEPT !.name = name, !.key = key, !.text = WriteArg(value)]

\* The store executing a command on its string keys.  An entry is the text,
\* the seconds it still lives (0: no expiry) and the value it was written
\* from.  The hashes and lists of the store are not represented: HSET, LPUSH
\* and RPUSH answer with an integer.
Exec(st, cmd) ==
    CASE cmd.name = "SET" ->
            [reply |-> Status(<<"OK">>), err |-> "nil",
             store |-> [k \in DOMAIN st \cup {cmd.key} |->
                            IF k = cmd.key
                            THEN [text |-> cmd.text, ttl |-> 0, src |-> cmd.src]
                            ELSE st[k]]]
      [] cmd.name = "SETEX" ->
            IF cmd.expire <= 0
            THEN [reply |-> NilReply, err |-> "ERR invalid expire", store |-> st]
            ELSE [reply |-> Status(<<"OK">>), err |-> "nil",
                  store |-> [k \in DOMAIN st \cup {cmd.key} |->
                                IF k = cmd.key
                                THEN [text |-> cmd.text, ttl |-> cmd.expire,
                                      src |-> cmd.src]
                                ELSE st[k]]]
      [] cmd.name = "GET" ->
            [reply |-> IF cmd.key \in DOMAIN st THEN Bulk(st[cmd.key].text)
                       ELSE NilReply,
             err |-> "nil", store |-> st]
      [] OTHER ->
            [reply |-> [k |-> "int", text |-> <<>>, n |-> 1], err |-> "nil",
             store |-> st]

\* c.Do(commandName, args...) against a store that is reachable or not.
Do(cmd, up) ==
    IF up THEN Exec(store, cmd)
    ELSE [reply |-> NilReply, err |-> "io", store |-> store]

\* The value an entry of the store was written from, Nil without an entry.
SrcOf(key) == IF key \in DOMAIN store THEN store[key].src ELSE Nil

NoLast ==
    [op |-> "none", c |-> "none", key |-> <<>>, val |-> Nil, up |-> TRUE, cmd |-> NoCmd, out |-> Nil, err |-> "nil", panicked |-> FALSE,
     called |-> "none", src |-> Nil, target |-> Nil,
     got |-> [reply |-> NilReply, err |-> "nil"]]

\* value, err := c.encode(val), called on its own.
EncodeCall(c, val) ==
    /\ cachers[c].hasPool
    /\ LET e == encode(cachers[c], val) IN
       last' = [NoLast EXCEPT !.op = "encode", !.c = c, !.val = val,
                              !.out = e.value, !.err = e.err,
                              !.called = e.called, !.panicked = e.panicked]
    /\ UNCHANGED store
    /\ UNCHANGED <<poolVars, lifeVars>>

\* An operation that encodes val and, if that worked, issues cmd.
EncodeAndDo(op, c, key, val, cmd, up) ==
    LET e == encode(cachers[c], val)
        r == Do(cmd, up)
        base == [NoLast EXCEPT !.op = op, !.c = c, !.key = key, !.val = val,
                               !.up = up, !.out = e.value,
                               !.called = e.called, !.panicked = e.panicked] IN
    IF e.panicked \/ e.err # "nil"
    THEN /\ last' = [base EXCEPT !.err = e.err]
         /\ UNCHANGED store
    ELSE /\ last' = [base EXCEPT !.err = r.err, !.cmd = cmd]
         /\ store' = r.store

\* c.Set(key, val, expire)
Set(c, key, val, expire, up) ==
    /\ cachers[c].hasPool
    /\ LET value == encode(cachers[c], val).value
           cmd == [SetCommand(getKey(cachers[c], key), expire, value)
                      EXCEPT !.src = val] IN
       EncodeAndDo("Set", c, key, val, cmd, up)
    /\ UNCHANGED <<poolVars, lifeVars>>

\* c.HSet(key, field, val), c.LPush(key, member), c.RPush(key, member)
Push(op, name, c, key, val, up) ==
    /\ cachers[c].hasPool
    /\ LET value == encode(cachers[c], val).value
           cmd == PushCommand(name, getKey(cachers[c], key), value) IN
       EncodeAndDo(op, c, key, val, cmd, up)
    /\ UNCHANGED <<poolVars, lifeVars>>

HSet(c, key, val, up) == Push("HSet", "HSET", c, key, val, up)
LPush(c, key, val, up) == Push("LPush", "LPUSH", c, key, val, up)
RPush(c, key, val, up) == Push("RPush", "RPUSH", c, key, val, up)

\* A typed getter: helper(c.Get(key))
TypedGet(op, c, key, up, res, typ) ==
    /\ cachers[c].hasPool
    /\ last' = [NoLast EXCEPT !.op = op, !.c = c, !.key = key, !.up = up,
                              !.cmd = GetCommand(getKey(cachers[c], key)),
                              !.out = [t |-> typ, v |-> res.val],
                              !.err = res.err,
                              !.src = IF up THEN SrcOf(getKey(cachers[c], key))
                                      ELSE Nil]
    /\ UNCHANGED store
    /\ UNCHANGED <<poolVars, lifeVars>>

\* c.Get(key)
Get(c, key, up) == Do(GetCommand(getKey(cachers[c], key)), up)

GetString(c, key, up) ==
    LET r == Get(c, key, up) IN
    TypedGet("GetString", c, key, up, String(r.reply, r.err), "string")

GetInt(c, key, up) ==
    LET r == Get(c, key, up) IN
    TypedGet("GetInt", c, key, up, IntOf(r.reply, r.err), "int")

GetInt64(c, key, up) ==
    LET r == Get(c, key, up) IN
    TypedGet("GetInt64", c, key, up, Int64(r.reply, r.err), "int64")

GetBool(c, key, up) ==
    LET r == Get(c, key, up) IN
    TypedGet("GetBool", c, key, up, Bool(r.reply, r.err), "bool")

\* c.GetObject(key, &target)
GetObject(c, key, target, up) ==
    /\ cachers[c].hasPool
    /\ LET r == Get(c, key, up)
           d == decode(cachers[c], r.reply, r.err, target) IN
       last' = [NoLast EXCEPT !.op = "GetObject", !.c = c, !.key = key, !.up = up,
                              !.cmd = GetCommand(getKey(cachers[c], key)),
                              !.val = [t |-> "struct", v |-> target],
                              !.got = [reply |-> r.reply, err |-> r.err],
                              !.err = d.err, !.called = d.called,
                              !.panicked = d.panicked,
                              !.target = [t |-> "struct", v |-> d.target],
                              !.src = IF up THEN SrcOf(getKey(cachers[c], key))
                                      ELSE Nil]
    /\ UNCHANGED store
    /\ UNCHANGED <<poolVars, lifeVars>>

\* A second passes: the store drops the entries whose time is up.
Tick ==
    /\ \E k \in DOMAIN store : store[k].ttl > 0
    /\ store' = [k \in {x \in DOMAIN store : store[x].ttl # 1} |->
                    IF store[k].ttl > 1 THEN [store[k] EXCEPT !.ttl = @ - 1]
                    ELSE store[k]]
    /\ UNCHANGED last
    /\ UNCHANGED <<poolVars, lifeVars>>

\* ------------------------------- HGetObject and the list pops to objects
\* The texts a hash field or a list element may hold: the JSON text of a
\* record, the text of a caller's marshal function, a text that is neither.
ObjTexts ==
    {JSONMarshal([t |-> "struct", v |-> [Name |-> <<"a">>, Age |-> 23]]).text,
     CustomMarshal([t |-> "struct", v |-> [Name |-> <<"a">>, Age |-> 23]]).text,
     <<"x">>}

\* What the store may answer to HGET, LPOP and RPOP: the hashes and lists
\* are shared with other clients, so any of these at any time.
ElementReplies == {NilReply} \cup {Bulk(t) : t \in ObjTexts}

ArrayReply(items) == [k |-> "array", items |-> items]

\* What the store may answer to BLPOP and BRPOP: nil after the timeout, or
\* the key and the element.  A one-element array is not an answer of the
\* store but a case the code provides for.
BlockingReplies(key) ==
    {NilReply} \cup {ArrayReply(<<Bulk(key), Bulk(t)>>) : t \in ObjTexts}
    \cup {ArrayReply(<<Bulk(key)>>)}

\* c.Do(commandName, args...) for a command the store answers with reply.
DoAnswered(cmd, up, reply) ==
    IF up THEN [reply |-> reply, err |-> "nil"]
    ELSE [reply |-> NilReply, err |-> "io"]

\* redis.Values(reply, err)
Values(reply, err) ==
    IF err # "nil" THEN [val |-> <<>>, err |-> err]
    ELSE CASE reply.k = "array" -> [val |-> reply.items, err |-> "nil"]
           [] reply.k = "nil" -> [val |-> <<>>, err |-> "ErrNil"]
           [] OTHER -> [val |-> <<>>, err |-> "unexpected type"]

\* c.HGet(key, field), c.LPop(key), c.RPop(key)
HGet(c, key, field, up, reply) ==
    DoAnswered([NoCmd EXCEPT !.name = "HGET", !.key = getKey(c, key),
                             !.text = field], up, reply)
LPop(c, key, up, reply) ==
    DoAnswered([NoCmd EXCEPT !.name = "LPOP", !.key = getKey(c, key)], up, reply)
RPop(c, key, up, reply) ==
    DoAnswered([NoCmd EXCEPT !.name = "RPOP", !.key = getKey(c, key)], up, reply)

\* A blocking pop that returns the first element of the reply, the key.
BlockingPop_FirstElement(name, c, key, timeout, up, reply) ==
    LET r == DoAnswered([NoCmd EXCEPT !.name = name, !.key = getKey(c, key),
                                     !.expire = timeout], up, reply)
        values == Values(r.reply, r.err) IN
    IF values.err # "nil" THEN [reply |-> NilReply, err |-> values.err]
    ELSE IF Len(values.val) # 2
    THEN [reply |-> NilReply, err |-> "unexpected number of values"]
    ELSE [reply |-> values.val[1], err |-> "nil"]

\* The body of c.BLPop(key, timeout) and c.BRPop(key, timeout).
BlockingPop(name, c, key, timeout, up, reply) ==
    LET r == DoAnswered([NoCmd EXCEPT !.name = name, !.key = getKey(c, key),
                                     !.expire = timeout], up, reply)
        values == Values(r.reply, r.err) IN
    IF values.err # "nil" THEN [reply |-> NilReply, err |-> values.err]
    ELSE IF Len(values.val) # 2
    THEN [reply |-> NilReply, err |-> "unexpected number of values"]
    ELSE [reply |-> values.val[2], err |-> "nil"]

BLPop(c, key, timeout, up, reply) == BlockingPop("BLPOP", c, key, timeout, up, reply)
BRPop(c, key, timeout, up, reply) == BlockingPop("BRPOP", c, key, timeout, up, reply)

\* return c.decode(reply, err, val), for the pair got that a getter returned.
DecodeInto(op, c, key, target, up, got) ==
    /\ cachers[c].hasPool
    /\ LET d == decode(cachers[c], got.reply, got.err, target) IN
       last' = [NoLast EXCEPT !.op = op, !.c = c, !.key = key, !.up = up,
                              !.val = [t |-> "struct", v |-> target],
                              !.got = got,
                              !.err = d.err, !.called = d.called,
                              !.panicked = d.panicked,
                              !.target = [t |-> "struct", v |-> d.target]]
    /\ UNCHANGED store
    /\ UNCHANGED <<poolVars, lifeVars>>

HGetObject(c, key, field, target, up, reply) ==
    DecodeInto("HGetObject", c, key, target, up,
               HGet(cachers[c], key, field, up, reply))

LPopObject(c, key, target, up, reply) ==
    DecodeInto("LPopObject", c, key, target, up, LPop(cachers[c], key, up, reply))

RPopObject(c, key, target, up, reply) ==
    DecodeInto("RPopObject", c, key, target, up, RPop(cachers[c], key, up, reply))

\* With timeout 0 the command waits for an element for ever.
BLPopObject(c, key, timeout, target, up, reply) ==
    /\ (up /\ timeout = 0) => reply # NilReply
    /\ DecodeInto("BLPopObject", c, key, target, up,
                  BLPop(cachers[c], key, timeout, up, reply))

BRPopObject(c, key, timeout, target, up, reply) ==
    /\ (up /\ timeout = 0) => reply # NilReply
    /\ DecodeInto("BRPopObject", c, key, target, up,
                  BRPop(cachers[c], key, timeout, up, reply))

\* Replies of any shape to BLPOP and BRPOP: those of the store, an array of
\* no or three elements, a bare string.
PopReplies(key) ==
    BlockingReplies(key)
    \cup {ArrayReply(<<>>), Bulk(key),
          ArrayReply(<<Bulk(key), Bulk(<<"x">>), Bulk(<<"y">>)>>)}

\* value, err := c.BLPop(key, timeout) or c.BRPop(key, timeout), called on
\* its own; got is what it returned.
PopCall(op, c, key, timeout, up, reply, got) ==
    /\ cachers[c].hasPool
    /\ (up /\ timeout = 0) => reply # NilReply
    /\ last' = [NoLast EXCEPT !.op = op, !.c = c, !.key = key, !.up = up,
                              !.val = [reply |-> reply, timeout |-> timeout],
                              !.got = got, !.err = got.err]
    /\ UNCHANGED store
    /\ UNCHANGED <<poolVars, lifeVars>>

BLPopCall(c, key, timeout, up, reply) ==
    PopCall("BLPop", c, key, timeout, up, reply,
            BLPop(cachers[c], key, timeout, up, reply))

BRPopCall(c, key, timeout, up, reply) ==
    PopCall("BRPop", c, key, timeout, up, reply,
            BRPop(cachers[c], key, timeout, up, reply))

\* ------------------------------------------------------------- geo
\* A float64 is counted in tenths: the texts of the model have at most one
\* decimal.  strconv.ParseFloat(s, 64)
ParseFloat(s) ==
    LET dots == {i \in 1..Len(s) : s[i] = "."} IN
    IF dots = {}
    THEN LET n == ParseInt(s) IN [ok |-> n.ok, val |-> n.val * 10]
    ELSE LET i == CHOOSE x \in dots : TRUE
             whole == ParseInt(SubSeq(s, 1, i - 1))
             frac == SubSeq(s, i + 1, Len(s)) IN
         IF Cardinality(dots) = 1 /\ whole.ok /\ Len(frac) = 1 /\ IsDigit(frac[1])
         THEN [ok |-> TRUE,
               val |-> IF Head(s) = "-" THEN whole.val * 10 - DigitVal(frac[1])
                       ELSE whole.val * 10 + DigitVal(frac[1])]
         ELSE [ok |-> FALSE, val |-> 0]

\* redis.Float64(reply, err)
Float64(reply, err) ==
    IF err # "nil" THEN [val |-> 0, err |-> err]
    ELSE CASE reply.k = "bulk" ->
                LET f == ParseFloat(reply.text) IN
                [val |-> f.val, err |-> IF f.ok THEN "nil" ELSE "syntax"]
           [] reply.k = "nil" -> [val |-> 0, err |-> "ErrNil"]
           [] OTHER -> [val |-> 0, err |-> "unexpected type"]

IntReply(n) == [k |-> "int", text |-> <<>>, n |-> n]

\* &GeoResult{}
GeoZero ==
    [Name |-> <<>>, Longitude |-> 0, Latitude |-> 0, Dist |-> 0, Hash |-> 0]

\* The outcome of decoding one element: the record and the positions of
\* the field list that were read, an error, or a run-time panic.
GeoOk(rec, read) == [err |-> "nil", panicked |-> FALSE, rec |-> rec, read |-> read]
GeoFail(err) == [err |-> err, panicked |-> FALSE, rec |-> GeoZero, read |-> {}]
GeoPanic == [err |-> "nil", panicked |-> TRUE, rec |-> GeoZero, read |-> {}]

\* toGeoResult, the WithCoord step for element i (from 0) with field list p,
\* pos being the position of the last field read.
GeoCoordStep(p, i, pos0, rec, read, options) ==
    IF ~options.WithCoord THEN GeoOk(rec, read)
    ELSE LET pos == pos0 + 1 IN
         IF pos >= Len(p) THEN GeoPanic
         ELSE IF p[pos + 1].k # "array"
         THEN IF i >= Len(p) THEN GeoPanic
              ELSE GeoFail("unexpected element type")
         ELSE LET pp == p[pos + 1].items IN
              IF Len(pp) = 0 THEN GeoOk(rec, read \cup {pos})
              ELSE LET lat == Float64(pp[1], "nil") IN
                   IF lat.err # "nil" THEN GeoFail(lat.err)
                   ELSE IF Len(pp) < 2 THEN GeoPanic
                   ELSE LET lon == Float64(pp[2], "nil") IN
                        IF lon.err # "nil" THEN GeoFail(lon.err)
                        ELSE GeoOk([rec EXCEPT !.Latitude = lat.val,
                                               !.Longitude = lon.val],
                                   read \cup {pos})

\* A WithHash step that reads at the position of the field before it.
GeoHashStep_SamePos(p, i, pos0, rec, read, options) ==
    IF ~options.WithHash THEN GeoCoordStep(p, i, pos0, rec, read, options)
    ELSE IF pos0 >= Len(p) THEN GeoPanic
    ELSE LET hash == Int64(p[pos0 + 1], "nil") IN
         IF hash.err # "nil" THEN GeoFail(hash.err)
         ELSE GeoCoordStep(p, i, pos0, [rec EXCEPT !.Hash = hash.val],
                           read \cup {pos0}, options)

\* toGeoResult, the WithHash step.
GeoHashStep(p, i, pos0, rec, read, options) ==
    IF ~options.WithHash THEN GeoCoordStep(p, i, pos0, rec, read, options)
    ELSE LET pos == pos0 + 1 IN
         IF pos >= Len(p) THEN GeoPanic
         ELSE LET hash == Int64(p[pos + 1], "nil") IN
              IF hash.err # "nil" THEN GeoFail(hash.err)
              ELSE GeoCoordStep(p, i, pos, [rec EXCEPT !.Hash = hash.val],
                                read \cup {pos}, options)

\* toGeoResult, the WithDist step.
GeoDistStep(p, i, pos0, rec, read, options) ==
    IF ~options.WithDist THEN GeoHashStep(p, i, pos0, rec, read, options)
    ELSE LET pos == pos0 + 1 IN
         IF pos >= Len(p) THEN GeoPanic
         ELSE LET dist == Float64(p[pos + 1], "nil") IN
              IF dist.err # "nil" THEN GeoFail(dist.err)
              ELSE GeoHashStep(p, i, pos, [rec EXCEPT !.Dist = dist.val],
                               read \cup {pos}, options)

\* toGeoResult, the body of the loop for the non-nil element values[i].
GeoElement(value, i, options) ==
    IF value.k # "array" THEN GeoFail("unexpected element type")
    ELSE LET p == value.items IN
         IF Len(p) = 0 THEN GeoPanic
         ELSE LET name == String(p[1], "nil") IN
              IF name.err # "nil" THEN GeoFail(name.err)
              ELSE GeoDistStep(p, i, 0, [GeoZero EXCEPT !.Name = name.val],
                               {0}, options)

\* An entry of []*GeoResult: nil or a record.
NilResult == [isNil |-> TRUE, rec |-> GeoZero, read |-> {}]

\* toGeoResult, the end of the loop over values, e[n] being the outcome of
\* decoding values[n]: the first element that failed ends the call with its
\* error or its panic, otherwise every element has filled its own entry.
GeoCollect(values, e) ==
    LET failed == {n \in 1..Len(values) : e[n].panicked \/ e[n].err # "nil"} IN
    IF failed = {}
    THEN [results |-> [n \in 1..Len(values) |->
                          IF values[n].k = "nil" THEN NilResult
                          ELSE [isNil |-> FALSE, rec |-> e[n].rec,
                                read |-> e[n].read]],
          err |-> "nil", panicked |-> FALSE]
    ELSE LET first == CHOOSE n \in failed : \A m \in failed : n <= m IN
         [results |-> <<>>, err |-> e[first].err, panicked |-> e[first].panicked]

\* toGeoResult, the loop over values: a nil element is skipped, any other
\* element i (from 0) is decoded.
GeoLoop(values, options) ==
    GeoCollect(values,
               [n \in 1..Len(values) |->
                   IF values[n].k = "nil" THEN GeoOk(GeoZero, {})
                   ELSE GeoElement(values[n], n - 1, options)])

\* A toGeoResult that leaves the null elements out of its result.
toGeoResult_NullsDropped(reply, err, options) ==
    LET values == Values(reply, err) IN
    IF values.err # "nil"
    THEN [results |-> <<>>, err |-> values.err, panicked |-> FALSE]
    ELSE GeoLoop(SelectSeq(values.val, LAMBDA e : e.k # "nil"), options)

\* toGeoResult(reply, err, options)
toGeoResult(reply, err, options) ==
    LET values == Values(reply, err) IN
    IF values.err # "nil"
    THEN [results |-> <<>>, err |-> values.err, panicked |-> FALSE]
    ELSE GeoLoop(values.val, options)

\* GeoOptions values: every combination of the three flags, with and
\* without an order and a count.
GeoOptionsValues ==
    {[WithCoord |-> wc, WithDist |-> wd, WithHash |-> wh,
      Order |-> oc[1], Count |-> oc[2]] :
        wc \in BOOLEAN, wd \in BOOLEAN, wh \in BOOLEAN,
        oc \in {<<"", 0>>, <<"ASC", 1>>}}

\* The field list the store sends for one member under the given flags:
\* the name, then the distance, the hash and the (longitude, latitude) pair
\* as far as they were asked for.
GeoFields(name, options) ==
    <<Bulk(name)>>
    \o (IF options.WithDist THEN <<Bulk(<<"1", ".", "5">>)>> ELSE <<>>)
    \o (IF options.WithHash THEN <<IntReply(7)>> ELSE <<>>)
    \o (IF options.WithCoord
        THEN <<ArrayReply(<<Bulk(<<"2">>), Bulk(<<"3", ".", "1">>)>>)>>
        ELSE <<>>)

\* Elements of a raw reply: a null, a bare name, the field lists of every
\* flag combination, and field lists that are empty or whose coordinate
\* pair has no, one or three elements.
GeoElements ==
    {NilReply, Bulk(<<"a">>), ArrayReply(<<>>)}
    \cup {ArrayReply(GeoFields(<<"a">>, o)) : o \in GeoOptionsValues}
    \cup {ArrayReply(GeoFields(<<"b">>, o)) :
            o \in {x \in GeoOptionsValues : x.WithCoord /\ x.WithDist /\ x.WithHash}}
    \cup {ArrayReply(<<Bulk(<<"a">>), ArrayReply(pp)>>) :
            pp \in {<<>>, <<Bulk(<<"2">>)>>,
                    <<Bulk(<<"2">>), Bulk(<<"3">>), Bulk(<<"4">>)>>}}

\* Raw replies to GEORADIUS and GEORADIUSBYMEMBER: a null, a bare string,
\* and arrays of up to two elements or of two nulls and an element.
GeoReplies ==
    {NilReply, Bulk(<<"a">>), ArrayReply(<<>>)}
    \cup {ArrayReply(<<e>>) : e \in GeoElements}
    \cup {ArrayReply(<<e[1], e[2]>>) : e \in GeoElements \X GeoElements}
    \cup {ArrayReply(<<NilReply, NilReply, e>>) : e \in GeoElements}

\* Replies to GEODIST: a null for a missing member, a distance, a text that
\* is no number.
DistReplies == {NilReply, Bulk(<<"1", ".", "5">>), Bulk(<<"0">>), Bulk(<<"x">>)}

\* The option words appended to the arguments of the two radius commands.
GeoArgs(options) ==
    (IF options.WithDist THEN <<"WITHDIST">> ELSE <<>>)
    \o (IF options.WithCoord THEN <<"WITHCOORD">> ELSE <<>>)
    \o (IF options.WithHash THEN <<"WITHHASH">> ELSE <<>>)
    \o (IF options.Order # "" THEN <<options.Order>> ELSE <<>>)
    \o (IF options.Count > 0 THEN <<"Count">> \o IntToStr(options.Count) ELSE <<>>)

\* reply, err := c.Do(name, args...); return toGeoResult(reply, err, options)
GeoQuery(op, name, c, key, head, options, up, reply) ==
    /\ cachers[c].hasPool
    /\ LET cmd == [NoCmd EXCEPT !.name = name, !.key = getKey(cachers[c], key),
                                !.text = head \o GeoArgs(options)]
           r == DoAnswered(cmd, up, reply)
           g == toGeoResult(r.reply, r.err, options) IN
       last' = [NoLast EXCEPT !.op = op, !.c = c, !.key = key, !.up = up,
                              !.cmd = cmd,
                              !.val = [reply |-> reply, options |-> options],
                              !.out = g.results, !.err = g.err,
                              !.panicked = g.panicked]
    /\ UNCHANGED store
    /\ UNCHANGED <<poolVars, lifeVars>>

\* c.GeoRadius(key, longitude, latitude, radius, unit, options)
GeoRadius(c, key, longitude, latitude, radius, unit, options, up, reply) ==
    GeoQuery("GeoRadius", "GEORADIUS", c, key,
             <<longitude, latitude, radius, unit>>, options, up, reply)

\* c.GeoRadiusByMember(key, member, radius, unit, options)
GeoRadiusByMember(c, key, member, radius, unit, options, up, reply) ==
    GeoQuery("GeoRadiusByMember", "GEORADIUSBYMEMBER", c, key,
             <<member, radius, unit>>, options, up, reply)

\* c.GeoDist(key, member1, member2, unit)
GeoDist(c, key, member1, member2, unit, up, reply) ==
    /\ cachers[c].hasPool
    /\ LET cmd == [NoCmd EXCEPT !.name = "GEODIST", !.key = getKey(cachers[c], key),
                                !.text = <<member1, member2, unit>>]
           r == DoAnswered(cmd, up, reply)
           f == Float64(r.reply, r.err) IN
       last' = [NoLast EXCEPT !.op = "GeoDist", !.c = c, !.key = key, !.up = up,
                              !.cmd = cmd, !.got = r,
                              !.out = [t |-> "float64", v |-> 0],
                              !.err = f.err]
    /\ UNCHANGED store
    /\ UNCHANGED <<poolVars, lifeVars>>

\* ---------------------------------------------------------- specification
ChannelSets == {{"chA"}, {"chA", "chB"}}

\* The pool of a started Cacher with no connection yet, nobody inside a call.
PoolInit(maxActives, ups) ==
    /\ pool \in {[maxActive |-> n, idle |-> <<>>, held |-> [o \in Owners |-> 0]]
                    : n \in maxActives}
    /\ storeUp \in ups
    /\ outages = 0
    /\ thr = [t \in Threads |-> IdleThread]
    /\ sub = InitSub
    /\ inbox = <<>>
    /\ published = 0
    /\ delivered = <<>>

\* The process at start: no Cacher created, no listener, no signal.
ProcessInit ==
    /\ cachers = [c \in Cachers |-> NewCacher]
    /\ hooks = <<>>
    /\ signal = "none"
    /\ exited = FALSE
    /\ single = InitSingle
    /\ dial = InitDial

\* An empty store and no codec operation so far.
StoreInit ==
    /\ store = <<>>
    /\ last = NoLast

Init == PoolInit(0..MaxActiveCfg, BOOLEAN) /\ ProcessInit /\ StoreInit

LifeInit == PoolInit({0}, {TRUE}) /\ ProcessInit /\ StoreInit

CallerStep ==
    \E t \in Threads :
        \/ DoGet(t)
        \/ DoCmd(t)
        \/ DeferredClose(t)
        \/ \E e \in {0, 1} : HMSetGet(t, e)
        \/ HMSetSendHMSET(t)
        \/ HMSetSendEXPIRE(t)
        \/ \E r1 \in ReplyErrs, r2 \in ReplyErrs : HMSetFlush(t, r1, r2)
        \/ HMSetReceive(t)

EngineStep ==
    \/ \E h \in Handlers, chs \in ChannelSets : SubscribeCall(h, chs)
    \/ SubGet
    \/ SubSubscribe
    \/ SubBackoff
    \/ RecvItem
    \/ RecvError
    \/ ReconWake
    \/ ReconResubscribe

StoreStep ==
    \/ StoreDown
    \/ StoreUp

\* Callers of Do and HMSet sharing one pool, the store coming and going.
Next == CallerStep \/ StoreStep

Spec == Init /\ [][Next]_vars

\* One Subscribe invocation and the tasks it starts, the store coming and
\* going, clients publishing.
SubNext ==
    \/ EngineStep
    \/ StoreStep
    \/ \E ch \in Channels : Publish(ch)

SubSpec == Init /\ [][SubNext]_vars

\* The same, with the handler invocations returning.
DispatchNext ==
    \/ SubNext
    \/ \E i \in 1..Len(delivered), ret \in {"nil", "err"} : HandlerReturn(i, ret)

DispatchSpec == Init /\ [][DispatchNext]_vars

\* Cachers being created and started, and the process being signalled.
LifeStep ==
    \/ \E c \in Cachers, o \in OptionsValues : New(c, o)
    \/ \E c \in Cachers, o \in OptionsValues \cup OtherValues : StartAndGC(c, o)
    \/ \E s \in {"SIGINT", "SIGTERM"} : Signal(s)
    \/ \E i \in 1..Len(hooks) : HookClose(i)
    \/ \E i \in 1..Len(hooks) : HookExit(i)

LifeSpec == LifeInit /\ [][LifeStep]_vars

\* The Options of the codec runs: every combination of codec functions.
CodecOptions == {o \in OptionsValues : o.Prefix = <<>>}

\* One Cacher created from any of these Options, values written and read back through
\* it, time passing.
CodecStep ==
    \/ \E o \in CodecOptions : New("c1", o)
    \/ \E v \in GoValues : EncodeCall("c1", v)
    \/ \E k \in Keys, v \in GoValues, e \in ExpireValues, up \in BOOLEAN :
            Set("c1", k, v, e, up)
    \/ \E k \in Keys, v \in PushValues, up \in BOOLEAN : HSet("c1", k, v, up)
    \/ \E k \in Keys, v \in PushValues, up \in BOOLEAN : LPush("c1", k, v, up)
    \/ \E k \in Keys, v \in PushValues, up \in BOOLEAN : RPush("c1", k, v, up)
    \/ \E k \in Keys, up \in BOOLEAN : GetString("c1", k, up)
    \/ \E k \in Keys, up \in BOOLEAN : GetInt("c1", k, up)
    \/ \E k \in Keys, up \in BOOLEAN : GetInt64("c1", k, up)
    \/ \E k \in Keys, up \in BOOLEAN : GetBool("c1", k, up)
    \/ \E k \in Keys, t \in Users, up \in BOOLEAN : GetObject("c1", k, t, up)
    \/ Tick

CodecSpec == LifeInit /\ [][CodecStep]_vars

\* One Cacher created from any of these Options, records written with Set
\* and read back into a target from a key, a hash field or a list.
ObjectStep ==
    \/ \E o \in CodecOptions : New("c1", o)
    \/ \E k \in Keys, v \in PushValues, e \in ExpireValues, up \in BOOLEAN :
            Set("c1", k, v, e, up)
    \/ \E k \in Keys, t \in Users, up \in BOOLEAN : GetObject("c1", k, t, up)
    \/ \E k \in Keys, t \in Users, up \in BOOLEAN, r \in ElementReplies :
            \/ HGetObject("c1", k, <<"f">>, t, up, r)
            \/ LPopObject("c1", k, t, up, r)
            \/ RPopObject("c1", k, t, up, r)
    \/ \E k \in Keys, t \in Users, up \in BOOLEAN, timeout \in {0, 1} :
          \E r \in BlockingReplies(k) :
            \/ BLPopObject("c1", k, timeout, t, up, r)
            \/ BRPopObject("c1", k, timeout, t, up, r)
    \/ Tick

ObjectSpec == LifeInit /\ [][ObjectStep]_vars

\* One Cacher, blocking pops answered with replies of any shape.
PopStep ==
    \/ \E o \in OptionsValues : New("c1", o)
    \/ \E k \in Keys, timeout \in {0, 1}, up \in BOOLEAN :
          \E r \in PopReplies(k) :
            \/ BLPopCall("c1", k, timeout, up, r)
            \/ BRPopCall("c1", k, timeout, up, r)

PopSpec == LifeInit /\ [][PopStep]_vars

\* The calls of the geo runs: what is asked and what the store answers.
GeoCalls ==
    [fn : {"radius"}, options : GeoOptionsValues, up : {TRUE}, reply : GeoReplies]
    \cup [fn : {"radius"}, options : GeoOptionsValues, up : {FALSE},
          reply : {NilReply}]
    \cup [fn : {"dist"}, options : {CHOOSE o \in GeoOptionsValues : TRUE},
          up : {TRUE}, reply : DistReplies]
    \cup [fn : {"dist"}, options : {CHOOSE o \in GeoOptionsValues : TRUE},
          up : {FALSE}, reply : {NilReply}]

\* A process in which New(Options{Prefix: ...}) has returned a Cacher, about
\* to make one of the calls.
GeoInit ==
    /\ PoolInit({0}, {TRUE})
    /\ \E o \in {x \in OptionsValues : x.Marshal = "nil" /\ x.Unmarshal = "nil"} :
          cachers = [c \in Cachers |->
                        IF c = "c1" THEN Started(NewCacher, o) ELSE NewCacher]
    /\ hooks = RegisterHook(<<>>, "c1")
    /\ signal = "none"
    /\ exited = FALSE
    /\ single = InitSingle
    /\ dial = InitDial
    /\ store = <<>>
    /\ \E call \in GeoCalls : last = [NoLast EXCEPT !.op = "call", !.val = call]

\* The call drawn at the start is made.
CallGeoRadius ==
    /\ last.op = "call" /\ last.val.fn = "radius"
    /\ \E k \in Keys :
          GeoRadius("c1", k, "13.4", "52.5", "10", "km", last.val.options,
                    last.val.up, last.val.reply)

CallGeoRadiusByMember ==
    /\ last.op = "call" /\ last.val.fn = "radius"
    /\ \E k \in Keys :
          GeoRadiusByMember("c1", k, "a", "10", "km", last.val.options,
                            last.val.up, last.val.reply)

CallGeoDist ==
    /\ last.op = "call" /\ last.val.fn = "dist"
    /\ \E k \in Keys :
          GeoDist("c1", k, "a", "b", "km", last.val.up, last.val.reply)

GeoStep ==
    \/ CallGeoRadius
    \/ CallGeoRadiusByMember
    \/ CallGeoDist

GeoSpec == GeoInit /\ [][GeoStep]_vars

\* Callers of New and GetInstance of redis.go, each on its own thread.
SingleStep ==
    \E t \in Threads :
        \/ \E args \in SingleArgs : RedisNewCall(t, args)
        \/ OnceDo(t)
        \/ OnceMakeInstance(t)
        \/ OnceClosePool(t)
        \/ RedisNewReturn(t)
        \/ GetInstance(t)

SingleSpec == LifeInit /\ [][SingleStep]_vars

\* Integer values of every width, signed and unsigned.
IntegerValues ==
    [t : SignedTypes, v : {0 - 7, 0, 23}] \cup [t : UnsignedTypes, v : {0, 5, 200}]

\* One Cacher created from any of the Options, integers of every width
\* handed to encode.
IntegerStep ==
    \/ \E o \in CodecOptions : New("c1", o)
    \/ \E v \in IntegerValues : EncodeCall("c1", v)

IntegerSpec == LifeInit /\ [][IntegerStep]_vars

\* The pool calling Dial, each step of it succeeding or failing.
DialNext ==
    \/ \E cfg \in DialConfigs : DialCall(cfg)
    \/ \E ok \in BOOLEAN : DialStep(ok)
    \/ \E ok \in BOOLEAN : AuthStep(ok)
    \/ \E ok \in BOOLEAN : SelectStep(ok)

DialSpec == LifeInit /\ [][DialNext]_vars

\* Options that differ in the key prefix only.
PrefixOptions ==
    {o \in OptionsValues : o.Marshal = "nil" /\ o.Unmarshal = "nil"}

\* Two Cachers on one database, each created from Options with or without
\* a prefix, writing and reading the same keys.
PrefixStep ==
    \E c \in Cachers :
        \/ \E o \in PrefixOptions : New(c, o)
        \/ \E k \in Keys, v \in PushValues, up \in BOOLEAN : Set(c, k, v, 0, up)
        \/ \E k \in Keys, v \in PushValues, up \in BOOLEAN : HSet(c, k, v, up)
        \/ \E k \in Keys, up \in BOOLEAN : GetString(c, k, up)

PrefixSpec == LifeInit /\ [][PrefixStep]_vars

ExpirySeconds == {0 - 1, 0, 1, 2}

\* One Cacher, values written with and without expiry and read back as
\* strings, time passing.
ExpiryStep ==
    \/ \E o \in CodecOptions : New("c1", o)
    \/ \E k \in Keys, v \in PushValues, e \in ExpirySeconds, up \in BOOLEAN :
            Set("c1", k, v, e, up)
    \/ \E k \in Keys, up \in BOOLEAN : GetString("c1", k, up)
    \/ Tick

ExpirySpec == LifeInit /\ [][ExpiryStep]_vars

\* The scheduling the Go runtime gives: every task that can take a step
\* takes it eventually; an unreachable store comes back, and stays once its
\* outages are used up.
SubFairness ==
    /\ WF_poolVars(SubGet)
    /\ WF_poolVars(SubSubscribe)
    /\ WF_poolVars(SubBackoff)
    /\ WF_poolVars(RecvItem)
    /\ WF_poolVars(RecvError)
    /\ WF_poolVars(ReconWake)
    /\ WF_poolVars(ReconResubscribe)
    /\ WF_poolVars(StoreUp)

FairSubSpec == SubSpec /\ SubFairness

\* ------------------------------------------------------------------ claims
SameSubscription ==
    /\ sub.pair.handler = sub.orig.handler
    /\ sub.pair.channels = sub.orig.channels

\* C1: after the receive loop of an Active subscription gets a transport
\* error, the engine (with no further Subscribe call by the caller) is
\* eventually Active again for the same handler and the same channels on a
\* live connection to the reachable store, so that published messages are
\* delivered again.
C1_Resilience ==
    (sub.pair.state = "quit")
        ~> (/\ sub.pair.state = "active"
            /\ SameSubscription
            /\ storeUp
            /\ ConnErr(sub.pair.conn) = "nil")

\* C2: a failed subscribe request is followed by the backoff and a retry for
\* the same handler and channels; the caller's Subscribe never returns an
\* error and returns nil only after a subscribe request has succeeded.
C2_RetryUntilSubscribed ==
    /\ [](/\ sub.callerRet # "err"
          /\ (sub.callerRet = "nil" => sub.oks >= 1)
          /\ (sub.callerRet = "pending" => sub.frame.pc # "none" /\ sub.oks = 0)
          /\ (sub.frame.pc # "none" =>
                /\ sub.frame.handler = sub.orig.handler
                /\ sub.frame.channels = sub.orig.channels))
    /\ [][/\ (sub.frame.pc = "subscribe" /\ sub'.frame.pc # "subscribe"
                /\ ConnErr(sub.frame.conn) # "nil")
              => (sub'.frame.pc = "backoff" /\ sub'.callerRet = sub.callerRet)
          /\ (sub.frame.pc = "backoff" /\ sub'.frame.pc # "backoff")
              => (/\ sub'.frame.pc = "get"
                  /\ sub'.frame.handler = sub.frame.handler
                  /\ sub'.frame.channels = sub.frame.channels
                  /\ sub'.callerRet = sub.callerRet)]_poolVars

\* The caller's Subscribe has returned nil after two failed attempts and
\* one successful one.
C2_Witness ==
    /\ sub.callerRet = "nil"
    /\ sub.fails >= 2
    /\ sub.oks = 1
    /\ sub.pair.state = "active"

\* C3: with MaxActive = N > 0 never more than N connections are borrowed,
\* and an acquire at the bound waits for a release: no acquire is answered
\* with the pool-exhausted error.
C3_PoolBoundBlocks ==
    /\ (pool.maxActive > 0 => Borrowed <= pool.maxActive)
    /\ \A t \in Threads : thr[t].conn.err # "ErrPoolExhausted"

\* C4: a completed Do or HMSet has borrowed once and closed once, a Do has
\* issued exactly one request, and a caller that is not inside a call holds
\* no connection of the pool, whatever the outcome of the request.
C4_DoReleases ==
    \A t \in Threads :
        /\ pool.held[t] = (IF thr[t].conn.kind = "pooled" THEN 1 ELSE 0)
        /\ thr[t].pc = "idle" =>
              /\ pool.held[t] = 0
              /\ thr[t].kind # "none" => (thr[t].gets = 1 /\ thr[t].closes = 1)
              /\ thr[t].kind = "Do" => thr[t].reqs = 1
        /\ thr[t].pc # "idle" => thr[t].closes = 0

\* Both callers are back from a call whose request failed on a borrowed
\* connection, one from Do and one from HMSet.
C4_Witness ==
    /\ thr["t1"].pc = "idle" /\ thr["t1"].kind = "Do" /\ thr["t1"].err = "io"
    /\ thr["t2"].pc = "idle" /\ thr["t2"].kind = "HMSet" /\ thr["t2"].err = "io"

\* C5: when the process exits on SIGINT or SIGTERM, the pool of every
\* started Cacher has been closed.
C5_PoolsClosedBeforeExit ==
    (exited /\ signal # "none") =>
        \A c \in Cachers : cachers[c].hasPool => cachers[c].poolClosed

\* C6: whatever the number of New / StartAndGC calls, at most one signal
\* listener that closes a pool and exits is registered in the process.
C6_SingleShutdownHook == Len(hooks) <= 1

\* The codec function a Cacher is configured with: the one Options supplies,
\* the JSON one when Options supplies none.
Configured(fn) == IF fn = "nil" THEN "json" ELSE fn

EncodingOps == {"encode", "Set", "HSet", "LPush", "RPush"}

\* C7: encode returns a string, a signed integer, a floating-point number
\* or a boolean unchanged without calling the marshal function; for every
\* other value it returns the text of the marshal function, or the marshal
\* error and no value; Set, HSet, LPush and RPush send what encode returns.
C7_DualPathEncoding ==
    last.op \in EncodingOps =>
        LET m == CallMarshal(Configured(cachers[last.c].opts.Marshal), last.val) IN
        /\ ~last.panicked
        /\ IF last.val.t \in {"string", "bool"} \cup SignedTypes \cup FloatTypes
           THEN /\ last.out = last.val
                /\ last.called = "none"
                /\ last.op = "encode" => last.err = "nil"
           ELSE /\ last.called # "none"
                /\ IF m.ok THEN /\ last.out = Str(m.text)
                                /\ last.op = "encode" => last.err = "nil"
                   ELSE last.out = Nil /\ last.err = "marshal"
        /\ (last.op # "encode" /\ last.out # Nil) =>
              last.cmd.text = WriteArg(last.out)
        /\ (last.op # "encode" /\ last.out = Nil) => last.cmd = NoCmd

\* C8: Set of a composite record on a reachable store succeeds, and a
\* GetObject that finds the entry such a Set wrote (not expired, not
\* overwritten) succeeds and leaves the target equal to the record.
C8_CompositeRoundTrip ==
    /\ (last.op = "Set" /\ last.val.t = "struct" /\ last.up) =>
          (~last.panicked /\ last.err = "nil")
    /\ (last.op = "GetObject" /\ last.src.t = "struct") =>
          (~last.panicked /\ last.err = "nil" /\ last.target = last.src)

\* The typed getter of a scalar's type.
GetterOf(t) ==
    CASE t = "string" -> "GetString"
      [] t = "int" -> "GetInt"
      [] t = "int64" -> "GetInt64"
      [] t = "bool" -> "GetBool"
      [] OTHER -> "none"

\* C9: Set of a string, int, int64 or bool on a reachable store succeeds
\* and sends the value; the typed getter of that type that finds the entry
\* such a Set wrote (not expired, not overwritten) returns the value without
\* error; GetInt of an entry written from the string "23" returns 23.
C9_ScalarRoundTrip ==
    /\ (last.op = "Set" /\ GetterOf(last.val.t) # "none" /\ last.up) =>
          /\ ~last.panicked
          /\ last.err = "nil"
          /\ last.out = last.val
    /\ (last.op # "none" /\ last.op = GetterOf(last.src.t)) =>
          (last.err = "nil" /\ last.out = last.src)
    /\ (last.op = "GetInt" /\ last.src = Str(<<"2", "3">>)) =>
          (last.err = "nil" /\ last.out = [t |-> "int", v |-> 23])

\* GetInt has returned a negative int from an entry that Set wrote with an
\* expiry which has not passed, through a Cacher created with codec
\* functions of the caller.
C9_Witness ==
    /\ last.op = "GetInt"
    /\ last.src = [t |-> "int", v |-> 0 - 7]
    /\ last.out = last.src
    /\ last.err = "nil"
    /\ last.key \in DOMAIN store
    /\ store[last.key].ttl = 1
    /\ cachers[last.c].opts.Marshal = "custom"
    /\ cachers[last.c].opts.Unmarshal = "custom"

\* C10: after a successful StartAndGC both codec functions of the Cacher
\* are set, to the functions Options supplies and to the JSON ones where it
\* supplies none; encode of a composite value calls that marshal function
\* and decode of a reply calls that unmarshal function.
C10_CodecOverridesUsed ==
    /\ \A c \in Cachers :
          cachers[c].startErr = "nil" =>
              /\ cachers[c].marshal = Configured(cachers[c].opts.Marshal)
              /\ cachers[c].unmarshal = Configured(cachers[c].opts.Unmarshal)
    /\ (last.op \in EncodingOps /\ last.val.t \notin PrimitiveCase) =>
          /\ ~last.panicked
          /\ last.called = Configured(cachers[last.c].opts.Marshal)
    /\ (last.op = "GetObject" /\ last.src # Nil) =>
          /\ ~last.panicked
          /\ last.called = Configured(cachers[last.c].opts.Unmarshal)

ObjectGetters ==
    {"GetObject", "HGetObject", "LPopObject", "RPopObject", "BLPopObject",
     "BRPopObject"}

\* C11: an object getter whose command failed, or whose key, field or list
\* element was not found (nil reply), returns an error, has not called the
\* unmarshal function and has left the caller's target as it was.
C11_AbsentReplyFails ==
    (/\ last.op \in ObjectGetters
     /\ (last.got.err # "nil" \/ last.got.reply = NilReply)) =>
        /\ last.err # "nil"
        /\ ~last.panicked
        /\ last.called = "none"
        /\ last.target = last.val

\* BLPopObject has timed out on a Cacher whose Options supplied an
\* Unmarshal function and returned ErrNil, with a non-zero target.
C11_Witness ==
    /\ last.op = "BLPopObject"
    /\ last.up
    /\ last.got = [reply |-> NilReply, err |-> "ErrNil"]
    /\ last.err = "ErrNil"
    /\ last.val.v = [Name |-> <<"a">>, Age |-> 23]
    /\ cachers[last.c].opts.Unmarshal = "custom"

\* C12: a Set with e > 0 that succeeds has sent SETEX and leaves the
\* entry with e seconds to live, a Set with e <= 0 has sent SET and leaves
\* it with no expiry; every second takes one second off an expiring entry,
\* removes it when its time is up and leaves the others alone; GetString
\* of a key that is not there (any more) returns an error.
C12_Expiry ==
    /\ [][/\ \A k \in Keys, v \in PushValues, e \in ExpirySeconds :
                (/\ Set("c1", k, v, e, TRUE)
                 /\ last'.err = "nil"
                 /\ ~last'.panicked) =>
                    LET sk == getKey(cachers["c1"], k) IN
                    /\ last'.cmd.name = (IF e > 0 THEN "SETEX" ELSE "SET")
                    /\ sk \in DOMAIN store'
                    /\ store'[sk].src = v
                    /\ store'[sk].ttl = (IF e > 0 THEN e ELSE 0)
          /\ Tick =>
                \A k \in DOMAIN store :
                    /\ store[k].ttl = 0 => (k \in DOMAIN store' /\ store'[k] = store[k])
                    /\ store[k].ttl = 1 => k \notin DOMAIN store'
                    /\ store[k].ttl > 1 =>
                          (/\ k \in DOMAIN store'
                           /\ store'[k] = [store[k] EXCEPT !.ttl = @ - 1])]_vars
    /\ [](/\ (last.op = "GetString" /\ last.up /\ last.src = Nil) =>
                last.err = "ErrNil"
          /\ (last.op = "GetString" /\ last.src # Nil) => last.err = "nil")

\* A Set with an expiry of two seconds succeeded one second ago: the entry
\* is still there, with one second left.
C12_Witness ==
    /\ last.op = "Set"
    /\ last.err = "nil"
    /\ last.cmd.name = "SETEX"
    /\ last.cmd.expire = 2
    /\ last.cmd.key \in DOMAIN store
    /\ store[last.cmd.key].ttl = 1
    /\ store[last.cmd.key].src = last.val

\* A radius query has returned from a reachable store that sent an array.
GeoDecoded ==
    /\ last.op \in {"GeoRadius", "GeoRadiusByMember"}
    /\ last.up
    /\ last.val.reply.k = "array"

\* The number of fields asked for besides the name.
GeoRequested(o) ==
    (IF o.WithDist THEN 1 ELSE 0) + (IF o.WithHash THEN 1 ELSE 0)
    + (IF o.WithCoord THEN 1 ELSE 0)

\* Element e is a field list of the length and the shapes that go with o.
GeoMatching(e, o) ==
    /\ e.k = "array"
    /\ \E name \in {<<"a">>, <<"b">>} : e.items = GeoFields(name, o)

\* C13: for every flag combination and every field list of the matching
\* length the name comes from position 0, the distance, the hash and the
\* coordinate pair from the next positions in that order as far as they
\* were asked for; exactly the positions 0 .. number of flags are read and
\* the fields not asked for stay zero.
C13_GeoPositional ==
    GeoDecoded =>
        LET o == last.val.options
            values == last.val.reply.items
            iDist == 2
            iHash == 2 + (IF o.WithDist THEN 1 ELSE 0)
            iCoord == iHash + (IF o.WithHash THEN 1 ELSE 0) IN
        /\ (\A i \in 1..Len(values) :
                values[i] = NilReply \/ GeoMatching(values[i], o)) =>
              (last.err = "nil" /\ ~last.panicked)
        /\ (last.err = "nil" /\ ~last.panicked) =>
              \A i \in 1..Len(values) :
                  GeoMatching(values[i], o) =>
                      LET p == values[i].items
                          r == last.out[i].rec IN
                      /\ ~last.out[i].isNil
                      /\ r.Name = p[1].text
                      /\ r.Dist = (IF o.WithDist
                                   THEN ParseFloat(p[iDist].text).val ELSE 0)
                      /\ r.Hash = (IF o.WithHash THEN p[iHash].n ELSE 0)
                      /\ IF o.WithCoord
                         THEN {r.Longitude, r.Latitude}
                                = {ParseFloat(p[iCoord].items[j].text).val :
                                      j \in 1..2}
                         ELSE r.Longitude = 0 /\ r.Latitude = 0
                      /\ last.out[i].read = 0..GeoRequested(o)

\* GeoRadius with all three flags has decoded two members in order.
C13_Witness ==
    /\ last.op = "GeoRadius"
    /\ last.err = "nil"
    /\ last.val.options.WithDist
    /\ last.val.options.WithHash
    /\ last.val.options.WithCoord
    /\ Len(last.out) = 2
    /\ last.out[1].rec.Name = <<"a">>
    /\ last.out[2].rec.Name = <<"b">>
    /\ last.out[2].rec.Dist = 15
    /\ last.out[2].rec.Hash = 7
    /\ last.out[2].read = {0, 1, 2, 3}

\* C14: with WithCoord the record gets Longitude from the first element
\* of the coordinate pair and Latitude from the second.
C14_GeoCoordinates ==
    (GeoDecoded /\ last.err = "nil" /\ ~last.panicked /\ last.val.options.WithCoord) =>
        \A i \in 1..Len(last.val.reply.items) :
            LET e == last.val.reply.items[i]
                o == last.val.options IN
            GeoMatching(e, o) =>
                LET pair == e.items[1 + GeoRequested(o)].items IN
                /\ last.out[i].rec.Longitude = ParseFloat(pair[1].text).val
                /\ last.out[i].rec.Latitude = ParseFloat(pair[2].text).val

\* C15: the result has the length and the order of the raw reply, a null
\* element gives a nil entry at its index and is no error, every other
\* element gives a record at its index.
C15_GeoSequence ==
    GeoDecoded =>
        LET values == last.val.reply.items IN
        /\ (\A i \in 1..Len(values) :
                values[i] = NilReply \/ GeoMatching(values[i], last.val.options)) =>
              (last.err = "nil" /\ ~last.panicked)
        /\ (last.err = "nil" /\ ~last.panicked) =>
              /\ Len(last.out) = Len(values)
              /\ \A i \in 1..Len(values) :
                    /\ last.out[i].isNil <=> (values[i] = NilReply)
                    /\ ~last.out[i].isNil =>
                          last.out[i].rec.Name = values[i].items[1].text

\* A reply of two nulls and a member has given two nil entries and a
\* record, in that order.
C15_Witness ==
    /\ last.op = "GeoRadiusByMember"
    /\ last.err = "nil"
    /\ last.val.reply.k = "array"
    /\ Len(last.val.reply.items) = 3
    /\ Len(last.out) = 3
    /\ last.out[1].isNil
    /\ last.out[2].isNil
    /\ ~last.out[3].isNil
    /\ last.out[3].rec.Name = <<"a">>

\* Element e has a wrong shape for o: it is no list, its list is too short,
\* or its coordinate field is no list of exactly two elements.
GeoMisshapen(e, o) ==
    /\ e # NilReply
    /\ \/ e.k # "array"
       \/ Len(e.items) < 1 + GeoRequested(o)
       \/ /\ o.WithCoord
          /\ LET c == e.items[1 + GeoRequested(o)] IN
             c.k # "array" \/ Len(c.items) # 2

\* C16: a raw reply with an element of the wrong shape makes toGeoResult
\* return an error and no results, without a crash.
C16_GeoWrongShape ==
    (/\ GeoDecoded
     /\ \E i \in 1..Len(last.val.reply.items) :
            GeoMisshapen(last.val.reply.items[i], last.val.options)) =>
        /\ ~last.panicked
        /\ last.err # "nil"
        /\ last.out = <<>>

\* C20: when GEODIST succeeds with distance d, GeoDist returns d and no
\* error; when the command fails or a member is missing (nil reply) it
\* returns an error.
C20_GeoDist ==
    last.op = "GeoDist" =>
        /\ (last.got.err = "nil" /\ last.got.reply.k = "bulk"
              /\ ParseFloat(last.got.reply.text).ok) =>
              /\ last.err = "nil"
              /\ last.out.v = ParseFloat(last.got.reply.text).val
        /\ (last.got.err # "nil" \/ last.got.reply = NilReply) => last.err # "nil"

\* C17: a message taken from an Active subscription starts exactly one
\* invocation of the caller's handler with the message's channel and
\* payload; nothing else starts an invocation (no subscription notice, no
\* transport error); a handler that returns, with an error or without,
\* changes nothing of the receive loop, the subscription or the pool; and
\* no message is handed over twice.
C17_HandlerDispatch ==
    /\ [][/\ (RecvItem /\ Head(inbox).type = "message") =>
                /\ sub.pair.state = "active"
                /\ sub.pair.handler = sub.orig.handler
                /\ delivered' = Append(delivered,
                                       <<sub.orig.handler, Head(inbox).channel,
                                         Head(inbox).data>>)
          /\ Len(delivered') # Len(delivered) =>
                /\ inbox # <<>>
                /\ Head(inbox).type = "message"
                /\ inbox' = Tail(inbox)
                /\ Len(delivered') = Len(delivered) + 1
          /\ (delivered' # delivered /\ Len(delivered') = Len(delivered)) =>
                (sub' = sub /\ inbox' = inbox /\ pool' = pool)]_vars
    /\ [](\A i, j \in 1..Len(delivered) :
              delivered[i][3] = delivered[j][3] => i = j)

\* The first handler invocation has returned an error; the subscription is
\* still Active on a live connection and a second message has been handed
\* to the handler since.
C17_Witness ==
    /\ Len(delivered) = 2
    /\ Len(delivered[1]) = 4
    /\ delivered[1][4] = "err"
    /\ delivered[2][3] = 2
    /\ sub.pair.state = "active"
    /\ sub.loops = 1
    /\ ConnErr(sub.pair.conn) = "nil"
    /\ sub.fails = 0

\* C18: whatever the calls of New, at most one pool and one instance are
\* made and at most one shutdown hook is registered, exactly one of each
\* once the once is done; the instance never changes once it is set; every
\* New returns it, and so does every GetInstance called after a New has
\* returned; it is configured with the arguments of a New call that began
\* before any New call returned (the first call, when calls do not overlap).
C18_SingleInstance ==
    /\ [](/\ single.pools <= 1
          /\ single.hooks <= 1
          /\ single.instance.id <= 1
          /\ single.once = "done" =>
                (single.pools = 1 /\ single.hooks = 1 /\ single.instance.id = 1)
          /\ single.instance # NoInstance => single.instance.args \in single.early
          /\ \A t \in Threads :
                LET c == single.callers[t] IN
                /\ (c.fn = "New" /\ c.pc = "idle") =>
                      (c.ret = single.instance /\ c.ret # NoInstance
                         /\ single.once = "done")
                /\ (c.fn = "GetInstance" /\ c.after) =>
                      (~c.panicked /\ c.ret = single.instance /\ c.ret # NoInstance))
    /\ [][single.instance # NoInstance =>
             single'.instance = single.instance]_vars

\* Two overlapping New calls with different arguments have both returned
\* the one instance, made from the arguments of the second thread.
C18_Witness ==
    /\ single.callers["t1"].fn = "New"
    /\ single.callers["t2"].fn = "New"
    /\ single.callers["t1"].pc = "idle"
    /\ single.callers["t2"].pc = "idle"
    /\ single.callers["t1"].args # single.callers["t2"].args
    /\ single.callers["t1"].ret = single.callers["t2"].ret
    /\ single.instance.args = single.callers["t2"].args
    /\ Cardinality(single.early) = 2

\* C19: every command a Cacher issues for a key addresses the store key
\* made of the Prefix of its Options followed by the key, and a Set through
\* one Cacher leaves what a Cacher with a different Prefix reads unchanged.
C19_KeyPrefix ==
    /\ [](last.cmd # NoCmd =>
             last.cmd.key = cachers[last.c].opts.Prefix \o last.key)
    /\ [][\A c \in Cachers, d \in Cachers, k \in Keys, v \in PushValues,
             up \in BOOLEAN :
             (/\ Set(c, k, v, 0, up)
              /\ cachers[d].hasPool
              /\ cachers[c].opts.Prefix # cachers[d].opts.Prefix) =>
                 \A key \in Keys :
                     Exec(store', GetCommand(getKey(cachers[d], key))).reply
                        = Exec(store, GetCommand(getKey(cachers[d], key))).reply]_vars

\* C21: the engine of one Subscribe call holds at most one borrowed
\* connection of the pool at any time, and its own borrows never find the
\* pool exhausted (no other borrower being active).
C21_EngineHoldsOneConnection ==
    /\ pool.held[SubOwner] <= 1
    /\ (\A t \in Threads : pool.held[t] = 0) =>
          sub.frame.conn.err # "ErrPoolExhausted"

\* C22: for one Subscribe invocation at most one receive loop is alive; a
\* loop that reported a transport error has ended and its reconnect task
\* is the only thing left of the pair; a re-subscribe starts only from a
\* reconnect task that has slept, once, and ends that task; a new loop
\* starts only when none is alive; and no published message starts two
\* handler invocations.
C22_OneLoopOneResubscribe ==
    /\ [](/\ sub.loops <= 1
          /\ sub.pair.state = "active" => (sub.loops = 1 /\ sub.frame.pc = "none")
          /\ sub.pair.state \in {"quit", "slept"} =>
                (sub.loops = 0 /\ sub.frame.pc = "none")
          /\ sub.frame.pc # "none" => (sub.loops = 0 /\ sub.pair = NoPair)
          /\ \A i \in 1..Len(delivered) : \A j \in 1..Len(delivered) :
                (i # j) => (delivered[i][3] # delivered[j][3]))
    /\ [][/\ (sub.pair.state = "active" /\ sub'.pair.state # "active") =>
                (sub'.pair.state = "quit" /\ sub'.loops = 0)
          /\ (sub.called /\ sub.frame.pc = "none" /\ sub'.frame.pc # "none") =>
                (/\ sub.pair.state = "slept"
                 /\ sub'.pair = NoPair
                 /\ sub'.frame.pc = "get"
                 /\ sub'.frame.handler = sub.pair.handler
                 /\ sub'.frame.channels = sub.pair.channels)
          /\ (sub'.loops > sub.loops) => (sub.loops = 0 /\ sub'.loops = 1)]_vars

\* After a transport error and a recovery the second receive loop is alive
\* and both published messages have been handed to the handler.
C22_Witness ==
    /\ sub.oks = 2
    /\ sub.loops = 1
    /\ sub.pair.state = "active"
    /\ Len(delivered) = 2

\* C23: a live receive loop with an inbound item waiting can read it
\* whatever the state of the handler invocations started before, returned
\* or not.
C23_HandlerNeverStallsReceipt ==
    (sub.loops > 0 /\ sub.pair.state = "active" /\ inbox # <<>>) =>
        ENABLED RecvItem

\* The first handler invocation has not returned, and the second message
\* has been received and its handler invocation started.
C23_Witness ==
    /\ Len(delivered) = 2
    /\ Len(delivered[1]) = 3
    /\ delivered[1][3] = 1
    /\ delivered[2][3] = 2
    /\ inbox = <<>>

\* The requests HMSet issues when no send fails.
HMSetRequests(expire) ==
    IF expire > 0 THEN <<"HMSET", "EXPIRE">> ELSE <<"HMSET">>

\* C24: a HMSet call borrows one connection and issues on it HMSET and then,
\* only with expire > 0, EXPIRE; unless a send failed these are all issued
\* before the flush; the store executes them in that order; what the store
\* has executed stays executed until the call has returned, whatever the
\* reply to EXPIRE; and the connection is released when the call returns.
C24_HMSetSequence ==
    /\ [](\A t \in Threads :
            thr[t].kind = "HMSet" =>
               /\ thr[t].gets = 1
               /\ thr[t].sent \in {<<>>, <<"HMSET">>, <<"HMSET", "EXPIRE">>}
               /\ thr[t].expire <= 0 => thr[t].sent # <<"HMSET", "EXPIRE">>
               /\ thr[t].pc \in {"hmFlush", "hmRecv"} =>
                     thr[t].sent = HMSetRequests(thr[t].expire)
               /\ thr[t].applied # <<>> =>
                     /\ thr[t].sent = HMSetRequests(thr[t].expire)
                     /\ Len(thr[t].applied) = Len(thr[t].sent)
                     /\ \A i \in 1..Len(thr[t].sent) :
                           thr[t].applied[i].cmd = thr[t].sent[i]
               /\ thr[t].pc = "idle" =>
                     (thr[t].closes = 1 /\ pool.held[t] = 0))
    /\ [][\A t \in Threads :
            (thr[t].kind = "HMSet" /\ thr[t].pc # "idle" /\ thr[t].applied # <<>>) =>
               (thr'[t].applied = thr[t].applied /\ thr'[t].sent = thr[t].sent)]_vars

\* A HMSet with expire > 0 has returned: the store executed HMSET, answered
\* EXPIRE with an error, and the hash stays written.
C24_Witness ==
    /\ thr["t1"].kind = "HMSet"
    /\ thr["t1"].pc = "idle"
    /\ thr["t1"].expire > 0
    /\ thr["t1"].applied = <<[cmd |-> "HMSET", err |-> "nil"],
                             [cmd |-> "EXPIRE", err |-> "ERR"]>>
    /\ pool.held["t1"] = 0

\* C25: a HMSet that has returned nil sent every request without failure,
\* flushed them to the store and got a successful reply to each; any
\* failure of a send, of the flush or of a reply is returned.
C25_HMSetReturnsEveryFailure ==
    \A t \in Threads :
        (thr[t].kind = "HMSet" /\ thr[t].pc \in {"defer", "idle"}
           /\ thr[t].err = "nil") =>
            /\ thr[t].sent = HMSetRequests(thr[t].expire)
            /\ Len(thr[t].applied) = Len(thr[t].sent)
            /\ \A i \in 1..Len(thr[t].applied) : thr[t].applied[i].err = "nil"

\* C26: BLPop and BRPop return the second element of the reply and no
\* error when the command succeeded with a reply of exactly two elements;
\* in every other case (the command failed, the reply is absent, is no
\* array or has another number of elements) they return an error and no
\* value.
C26_BlockingPopShape ==
    last.op \in {"BLPop", "BRPop"} =>
        LET raw == last.val.reply IN
        IF last.up /\ raw.k = "array" /\ Len(raw.items) = 2
        THEN last.got.err = "nil" /\ last.got.reply = raw.items[2]
        ELSE last.got.err # "nil" /\ last.got.reply = NilReply

\* BRPop has returned the element of a two-element reply.
C26_Witness ==
    /\ last.op = "BRPop"
    /\ last.up
    /\ last.val.reply = ArrayReply(<<Bulk(<<"k">>), Bulk(<<"x">>)>>)
    /\ last.got = [reply |-> Bulk(<<"x">>), err |-> "nil"]

\* C27: StartAndGC with a value that is not an Options record returns the
\* error and changes nothing else: no pool, no codec function, no signal
\* listener, and the process goes on; a Cacher that was never given an
\* Options record has none of them.
C27_UnsupportedOptionsRejected ==
    /\ [](\A c \in Cachers :
            (cachers[c].startErr = "Unsupported options"
               /\ cachers[c].opts = NoOptions) =>
                /\ ~cachers[c].started
                /\ ~cachers[c].hasPool
                /\ cachers[c].marshal = "nil"
                /\ cachers[c].unmarshal = "nil"
                /\ \A i \in 1..Len(hooks) : hooks[i].cacher # c)
    /\ [][\A c \in Cachers, o \in OtherValues :
            StartAndGC(c, o) =>
                /\ cachers'[c] = [cachers[c] EXCEPT !.startErr = "Unsupported options"]
                /\ hooks' = hooks
                /\ exited' = exited
                /\ signal' = signal
                /\ pool' = pool]_vars

\* StartAndGC of the first Cacher was refused, and the process runs on
\* with a second Cacher started from an Options record.
C27_Witness ==
    /\ cachers["c1"].startErr = "Unsupported options"
    /\ ~cachers["c1"].hasPool
    /\ cachers["c2"].hasPool
    /\ Len(hooks) = 1
    /\ hooks[1].cacher = "c2"
    /\ ~exited

\* The steps of a Dial in which nothing fails.
DialSequence(cfg) ==
    <<<<"dial">>>>
    \o (IF cfg.password # "" THEN <<<<"AUTH", cfg.password>>>> ELSE <<>>)
    \o <<<<"SELECT", cfg.db>>>>

\* C28: Dial attempts dial, AUTH (only with a password) and SELECT of the
\* configured database in that
\* order, each once at most; it stops at the first step that fails and then
\* returns that error and no connection, the dialled connection closed if
\* there was one; it returns a connection, open and with no error, only
\* when every step was attempted and succeeded; one call makes at most one
\* connection.
C28_ConnectorSequence ==
    /\ dial.made <= dial.calls
    /\ (dial.pc \notin {"idle", "done"}) => dial.made < dial.calls
    /\ Len(dial.steps) <= Len(DialSequence(dial.cfg))
    /\ dial.steps = SubSeq(DialSequence(dial.cfg), 1, Len(dial.steps))
    /\ dial.pc # "done" => dial.ret = NoDialled
    /\ dial.pc = "done" =>
          IF dial.ret.conn
          THEN /\ dial.ret.err = "nil"
               /\ dial.steps = DialSequence(dial.cfg)
               /\ dial.open /\ ~dial.closed
          ELSE /\ dial.ret.err = dial.steps[Len(dial.steps)][1]
               /\ ~dial.open
               /\ dial.closed = (dial.ret.err # "dial")

\* A Dial with a password has returned the error of SELECT after a
\* successful AUTH, the connection closed.
C28_Witness ==
    /\ dial.pc = "done"
    /\ dial.cfg.password = "pw"
    /\ dial.cfg.db = 1
    /\ dial.steps = <<<<"dial">>, <<"AUTH", "pw">>, <<"SELECT", 1>>>>
    /\ dial.ret = [conn |-> FALSE, err |-> "SELECT"]
    /\ dial.closed

\* C29: encode returns an integer of any width, signed or unsigned,
\* unchanged and with no error, and does not call the marshal function.
C29_EveryIntegerWidthPrimitive ==
    (last.op = "encode" /\ last.val.t \in SignedTypes \cup UnsignedTypes) =>
        /\ ~last.panicked
        /\ last.err = "nil"
        /\ last.out = last.val
        /\ last.called = "none"

====
